---- MODULE Spec2Model ----
(***************************************************************************)
(* gloo_solana: base58 identifier types (Pubkey, Hash, Signature), the     *)
(* HTTP transport and the JSON-RPC client built on it.                     *)
(*                                                                         *)
(* Text is a sequence of one-character strings; a byte array is a sequence *)
(* of integers 0..255.  A Result is [ok |-> TRUE, v |-> value] or          *)
(* [ok |-> FALSE, e |-> error], an Option [some |-> FALSE] or               *)
(* [some |-> TRUE, v |-> value].                                           *)
(***************************************************************************)
EXTENDS Integers, Sequences, FiniteSets, TLC

None == [some |-> FALSE]

Ok(x) == [ok |-> TRUE, v |-> x]

Err(x) == [ok |-> FALSE, e |-> x]

Some(x) == [some |-> TRUE, v |-> x]

(***************************************************************************)
(* Sizes fixed by the program.                                             *)
(***************************************************************************)
PUBKEY_BYTES == 32

HASH_BYTES == 32

SIGNATURE_BYTES == 64

(***************************************************************************)
(* Bounds of the checked inputs.                                           *)
(***************************************************************************)
MaxLeadZeros == 2

LenSlack == 1

MaxKeys == 2

MaxPosts == 2

MaxClients == 2

MaxCalls == 2

\* The program ids a ProgramService is called with.
MaxPrograms == 2

\* The calls made on one ProgramAccount.
MaxOps == 3

(***************************************************************************)
(* bs58 (the base58 crate behind to_base58 / from_base58), Bitcoin         *)
(* alphabet.  encode and decode work on a little-endian digit buffer with  *)
(* a carry, exactly as the crate's encode_into / decode_into do.           *)
(***************************************************************************)
ALPHABET ==
  << "1", "2", "3", "4", "5", "6", "7", "8", "9",
     "A", "B", "C", "D", "E", "F", "G", "H", "J", "K", "L", "M", "N", "P",
     "Q", "R", "S", "T", "U", "V", "W", "X", "Y", "Z",
     "a", "b", "c", "d", "e", "f", "g", "h", "i", "j", "k", "m", "n", "o",
     "p", "q", "r", "s", "t", "u", "v", "w", "x", "y", "z" >>

\* The decode table: the digit of a character, 255 (0xFF) when it has none.
AlphabetIndex(c) ==
  IF \E i \in 1..Len(ALPHABET) : ALPHABET[i] = c
    THEN (CHOOSE i \in 1..Len(ALPHABET) : ALPHABET[i] = c) - 1
    ELSE 255

Reverse(s) == [i \in 1..Len(s) |-> s[Len(s) + 1 - i]]

Repeat(x, n) == [i \in 1..n |-> x]

\* Number of leading elements of s equal to x (take_while).
LeadingCount(s, x) ==
  IF \A i \in 1..Len(s) : s[i] = x THEN Len(s)
  ELSE (CHOOSE k \in 1..Len(s) : s[k] # x /\ \A j \in 1..(k - 1) : s[j] = x) - 1

\* The digits of a leftover carry, least significant first (while carry > 0).
RECURSIVE CarryDigits(_, _)
CarryDigits(carry, base) ==
  IF carry > 0 THEN << carry % base >> \o CarryDigits(carry \div base, base)
  ELSE << >>

\* The loop over the digits out[lo..hi]: each becomes (carry + digit * mul) % base
\* and passes (carry + digit * mul) / base on.
RECURSIVE CarryRun(_, _, _, _, _, _)
CarryRun(out, lo, hi, carry, mul, base) ==
  IF lo > hi THEN [carry |-> carry, out |-> out]
  ELSE LET v == carry + out[lo] * mul
       IN  CarryRun([out EXCEPT ![lo] = v % base], lo + 1, hi, v \div base, mul, base)

\* The same loop, run in stretches of 16 digits, each stretch evaluated before
\* the next starts (the singleton set binds its value).
RECURSIVE CarryRange(_, _, _, _, _, _)
CarryRange(out, lo, hi, carry, mul, base) ==
  IF hi - lo < 16 THEN CarryRun(out, lo, hi, carry, mul, base)
  ELSE CHOOSE r \in {CarryRange(l.out, lo + 16, hi, l.carry, mul, base) :
                       l \in {CarryRun(out, lo, lo + 15, carry, mul, base)}} : TRUE

\* One input symbol: out := out * mul + carry, in base `base`.
CarryPass(out, carry, mul, base) ==
  LET r == CarryRange(out, 1, Len(out), carry, mul, base)
  IN  r.out \o CarryDigits(r.carry, base)

\* The loop over the input symbols vals[lo..hi], evaluated by halves.
RECURSIVE FoldSymbols(_, _, _, _, _, _)
FoldSymbols(vals, lo, hi, out, mul, base) ==
  IF lo > hi THEN out
  ELSE IF lo = hi THEN CarryPass(out, vals[lo], mul, base)
  ELSE LET mid == (lo + hi) \div 2
       IN  CHOOSE r \in {FoldSymbols(vals, mid + 1, hi, left, mul, base) :
                           left \in {FoldSymbols(vals, lo, mid, out, mul, base)}} : TRUE

bs58_encode(input) ==
  LET digits == FoldSymbols(input, 1, Len(input), << >>, 256, 58)
      padded == digits \o Repeat(0, LeadingCount(input, 0))
  IN  Reverse([i \in 1..Len(padded) |-> ALPHABET[padded[i] + 1]])

\* Fails at the first character with no digit; otherwise the bytes.
bs58_decode(input) ==
  LET vals == [k \in 1..Len(input) |-> AlphabetIndex(input[k])]
  IN  IF \E k \in 1..Len(vals) : vals[k] = 255 THEN Err("InvalidCharacter")
      ELSE LET bytes == FoldSymbols(vals, 1, Len(vals), << >>, 58, 256)
           IN  Ok(Reverse(bytes \o Repeat(0, LeadingCount(input, ALPHABET[1]))))

(***************************************************************************)
(* domain/types: Pubkey, Hash, Signature.  A value is its byte array.      *)
(* A value that is used more than once is bound by a singleton set, here   *)
(* and below, so that it is computed once.                                 *)
(***************************************************************************)
Pubkey_new(bytes) == bytes

Pubkey_to_base58(self) == bs58_encode(self)

\* Mutant: a decode failure falls through to the length check as no bytes.
Pubkey_from_base58_DecodeDefault(s) ==
  CHOOSE r \in {IF Len(v) # PUBKEY_BYTES THEN Err("InvalidLength") ELSE Ok(v) :
                 v \in {IF bs58_decode(s).ok THEN bs58_decode(s).v ELSE << >>}} : TRUE

Pubkey_from_base58(s) ==
  CHOOSE r \in {IF ~bytes.ok THEN Err("InvalidBase58")
                ELSE IF Len(bytes.v) # PUBKEY_BYTES THEN Err("InvalidLength")
                ELSE Ok(bytes.v) : bytes \in {bs58_decode(s)}} : TRUE

Signature_new(bytes) == bytes

Signature_to_base58(self) == bs58_encode(self)

\* Mutant: the length of a Pubkey checked instead of that of a Signature.
Signature_from_base58_PubkeyLen(s) ==
  CHOOSE r \in {IF ~bytes.ok THEN Err("InvalidBase58")
                ELSE IF Len(bytes.v) # PUBKEY_BYTES THEN Err("InvalidLength")
                ELSE Ok(bytes.v) : bytes \in {bs58_decode(s)}} : TRUE

Signature_from_base58(s) ==
  CHOOSE r \in {IF ~bytes.ok THEN Err("InvalidBase58")
                ELSE IF Len(bytes.v) # SIGNATURE_BYTES THEN Err("InvalidLength")
                ELSE Ok(bytes.v) : bytes \in {bs58_decode(s)}} : TRUE

Hash_new(bytes) == bytes

Hash_to_base58(self) == bs58_encode(self)

\* Mutant: only a decoded text that is too short is rejected.
Hash_from_base58_TooShortOnly(s) ==
  CHOOSE r \in {IF ~bytes.ok THEN Err("InvalidBase58")
                ELSE IF Len(bytes.v) < HASH_BYTES THEN Err("InvalidLength")
                ELSE Ok(bytes.v) : bytes \in {bs58_decode(s)}} : TRUE

Hash_from_base58(s) ==
  CHOOSE r \in {IF ~bytes.ok THEN Err("InvalidBase58")
                ELSE IF Len(bytes.v) # HASH_BYTES THEN Err("InvalidLength")
                ELSE Ok(bytes.v) : bytes \in {bs58_decode(s)}} : TRUE

Kinds == {"Pubkey", "Hash", "Signature"}

\* The traits each type derives.
KindDerives(kind) ==
  CASE kind = "Pubkey" -> {"Debug", "Clone", "Copy", "PartialEq", "Eq", "Hash"}
    [] kind = "Hash" -> {"Debug", "Clone", "Copy", "PartialEq", "Eq", "Hash"}
    [] kind = "Signature" -> {"Debug", "Clone", "PartialEq", "Eq", "Hash"}

\* The derived PartialEq of a tuple struct over a byte array: byte by byte.
array_eq(self, other) == \A i \in 1..Len(self) : self[i] = other[i]

\* The comparison of two byte arrays of one length: at the first byte that
\* differs.
array_lt(self, other) ==
  \E i \in 1..Len(self) :
    /\ self[i] < other[i]
    /\ \A j \in 1..(i - 1) : self[j] = other[j]

\* x == y and x < y as the compiler resolves them: an operator exists only
\* for a type that has the trait.
KindCompare(kind, x, y) ==
  [eq |-> IF "PartialEq" \in KindDerives(kind) THEN Some(array_eq(x, y)) ELSE None,
   lt |-> IF "PartialOrd" \in KindDerives(kind) THEN Some(array_lt(x, y)) ELSE None]

KindBytes(kind) ==
  CASE kind = "Pubkey" -> PUBKEY_BYTES
    [] kind = "Hash" -> HASH_BYTES
    [] kind = "Signature" -> SIGNATURE_BYTES

KindNew(kind, bytes) ==
  CASE kind = "Pubkey" -> Pubkey_new(bytes)
    [] kind = "Hash" -> Hash_new(bytes)
    [] kind = "Signature" -> Signature_new(bytes)

KindToBase58(kind, x) ==
  CASE kind = "Pubkey" -> Pubkey_to_base58(x)
    [] kind = "Hash" -> Hash_to_base58(x)
    [] kind = "Signature" -> Signature_to_base58(x)

KindFromBase58(kind, s) ==
  CASE kind = "Pubkey" -> Pubkey_from_base58(s)
    [] kind = "Hash" -> Hash_from_base58(s)
    [] kind = "Signature" -> Signature_from_base58(s)

(***************************************************************************)
(* JSON values (serde_json::Value) and the text of an HTTP body.  A body   *)
(* that is not JSON is Text(raw); Missing stands for an absent struct      *)
(* field while it is being deserialized.                                   *)
(***************************************************************************)
JNull == [t |-> "null"]

JBool(b) == [t |-> "bool", bool |-> b]

JNum(n) == [t |-> "num", num |-> n]

JStr(s) == [t |-> "str", str |-> s]

JArr(a) == [t |-> "arr", arr |-> a]

JObj(f) == [t |-> "obj", obj |-> f]

Text(raw) == [t |-> "text", raw |-> raw]

Missing == [t |-> "missing"]

\* The characters of the words the client itself writes.
Chars_base64 == << "b", "a", "s", "e", "6", "4" >>

(***************************************************************************)
(* base64 (general_purpose::STANDARD): padded, canonical.                  *)
(***************************************************************************)
B64ALPHABET ==
  << "A", "B", "C", "D", "E", "F", "G", "H", "I", "J", "K", "L", "M", "N",
     "O", "P", "Q", "R", "S", "T", "U", "V", "W", "X", "Y", "Z",
     "a", "b", "c", "d", "e", "f", "g", "h", "i", "j", "k", "l", "m", "n",
     "o", "p", "q", "r", "s", "t", "u", "v", "w", "x", "y", "z",
     "0", "1", "2", "3", "4", "5", "6", "7", "8", "9", "+", "/" >>

B64Index(c) ==
  IF \E i \in 1..Len(B64ALPHABET) : B64ALPHABET[i] = c
    THEN (CHOOSE i \in 1..Len(B64ALPHABET) : B64ALPHABET[i] = c) - 1
    ELSE 255

base64_decode(s) ==
  LET n == Len(s)
      pad == IF n >= 2 /\ s[n] = "=" /\ s[n - 1] = "=" THEN 2
             ELSE IF n >= 1 /\ s[n] = "=" THEN 1 ELSE 0
      m == n - pad
      six == [i \in 1..m |-> B64Index(s[i])]
      nbytes == (m * 6) \div 8
      \* byte k (from 0) of the output, from the sextets of its group
      byte(k) ==
        LET g == 4 * (k \div 3)
        IN  CASE k % 3 = 0 -> six[g + 1] * 4 + six[g + 2] \div 16
              [] k % 3 = 1 -> (six[g + 2] % 16) * 16 + six[g + 3] \div 4
              [] k % 3 = 2 -> (six[g + 3] % 4) * 64 + six[g + 4]
  IN  IF n % 4 # 0 THEN Err("InvalidPadding")
      ELSE IF \E i \in 1..m : six[i] = 255 THEN Err("InvalidByte")
      ELSE IF pad = 2 /\ six[m] % 16 # 0 THEN Err("InvalidLastSymbol")
      ELSE IF pad = 1 /\ six[m] % 4 # 0 THEN Err("InvalidLastSymbol")
      ELSE Ok([k \in 1..nbytes |-> byte(k - 1)])

(***************************************************************************)
(* serde: Deserialize of the response types.  A struct is read from a JSON *)
(* object by key (unknown keys are skipped, an absent key is handed to the *)
(* field's type as Missing) or from a JSON array of exactly its fields.    *)
(***************************************************************************)
IsStruct(j, n) == j.t = "obj" \/ (j.t = "arr" /\ Len(j.arr) = n)

Field(j, key, pos) ==
  IF j.t = "arr" THEN j.arr[pos]
  ELSE IF key \in DOMAIN j.obj THEN j.obj[key] ELSE Missing

De_u64(j) ==
  IF j.t = "missing" THEN Err("missing field")
  ELSE IF j.t = "num" /\ j.num >= 0 THEN Ok(j.num) ELSE Err("invalid type")

De_bool(j) ==
  IF j.t = "missing" THEN Err("missing field")
  ELSE IF j.t = "bool" THEN Ok(j.bool) ELSE Err("invalid type")

De_String(j) ==
  IF j.t = "missing" THEN Err("missing field")
  ELSE IF j.t = "str" THEN Ok(j.str) ELSE Err("invalid type")

De_Pubkey(j) ==
  LET s == De_String(j)
  IN  IF ~s.ok THEN s
      ELSE CHOOSE x \in {IF r.ok THEN r ELSE Err("custom") :
                           r \in {Pubkey_from_base58(s.v)}} : TRUE

De_Hash(j) ==
  LET s == De_String(j)
  IN  IF ~s.ok THEN s
      ELSE CHOOSE x \in {IF r.ok THEN r ELSE Err("custom") :
                           r \in {Hash_from_base58(s.v)}} : TRUE

\* Mutant: a Signature is read with the length rule of a Pubkey.
De_Signature_AsPubkey(j) ==
  LET s == De_String(j)
  IN  IF ~s.ok THEN s
      ELSE CHOOSE x \in {IF r.ok THEN r ELSE Err("custom") :
                           r \in {Pubkey_from_base58(s.v)}} : TRUE

De_Signature(j) ==
  LET s == De_String(j)
  IN  IF ~s.ok THEN s
      ELSE CHOOSE x \in {IF r.ok THEN r ELSE Err("custom") :
                           r \in {Signature_from_base58(s.v)}} : TRUE

\* serializer.serialize_str(&self.to_base58())
Pubkey_serialize(self) == JStr(Pubkey_to_base58(self))

Hash_serialize(self) == JStr(Hash_to_base58(self))

Signature_serialize(self) == JStr(Signature_to_base58(self))

KindSerialize(kind, x) ==
  CASE kind = "Pubkey" -> Pubkey_serialize(x)
    [] kind = "Hash" -> Hash_serialize(x)
    [] kind = "Signature" -> Signature_serialize(x)

KindDeserialize(kind, j) ==
  CASE kind = "Pubkey" -> De_Pubkey(j)
    [] kind = "Hash" -> De_Hash(j)
    [] kind = "Signature" -> De_Signature(j)

\* struct Account and struct AccountInfo
Account(pubkey, lamports, data, owner, executable, rent_epoch) ==
  [pubkey |-> pubkey, lamports |-> lamports, data |-> data, owner |-> owner,
   executable |-> executable, rent_epoch |-> rent_epoch]

AccountInfo(lamports, data, owner, executable, rent_epoch) ==
  [lamports |-> lamports, data |-> data, owner |-> owner,
   executable |-> executable, rent_epoch |-> rent_epoch]

De_AccountData(j) ==
  IF j.t = "missing" THEN Err("missing field")
  ELSE IF ~IsStruct(j, 1) THEN Err("invalid type")
  ELSE LET text == De_String(Field(j, "data", 1))
       IN  IF ~text.ok THEN text ELSE Ok([data |-> text.v])

De_AccountInfo(j) ==
  IF j.t = "missing" THEN Err("missing field")
  ELSE IF ~IsStruct(j, 5) THEN Err("invalid type")
  ELSE LET lamports == De_u64(Field(j, "lamports", 1))
           data == De_AccountData(Field(j, "data", 2))
           executable == De_bool(Field(j, "executable", 4))
           rent_epoch == De_u64(Field(j, "rent_epoch", 5))
       IN  IF ~lamports.ok THEN lamports
           ELSE IF ~data.ok THEN data
           ELSE CHOOSE x \in
                  {IF ~owner.ok THEN owner
                   ELSE IF ~executable.ok THEN executable
                   ELSE IF ~rent_epoch.ok THEN rent_epoch
                   ELSE Ok(AccountInfo(lamports.v, data.v, owner.v,
                                       executable.v, rent_epoch.v)) :
                     owner \in {De_Pubkey(Field(j, "owner", 3))}} : TRUE

\* Option<AccountInfo>: null and an absent field are None.
De_Option_AccountInfo(j) ==
  IF j.t = "missing" \/ j.t = "null" THEN Ok(None)
  ELSE CHOOSE x \in {IF r.ok THEN Ok(Some(r.v)) ELSE r :
                       r \in {De_AccountInfo(j)}} : TRUE

\* Vec<Option<AccountInfo>>
De_Vec_Option_AccountInfo(j) ==
  IF j.t = "missing" THEN Err("missing field")
  ELSE IF j.t # "arr" THEN Err("invalid type")
  ELSE CHOOSE x \in
         {IF \E i \in 1..Len(rs) : ~rs[i].ok
            THEN rs[CHOOSE i \in 1..Len(rs) :
                      ~rs[i].ok /\ \A k \in 1..(i - 1) : rs[k].ok]
            ELSE Ok([i \in 1..Len(rs) |-> rs[i].v]) :
            rs \in {[i \in 1..Len(j.arr) |-> De_Option_AccountInfo(j.arr[i])]}} : TRUE

De_BalanceInfo(j) ==
  IF j.t = "missing" THEN Err("missing field")
  ELSE IF ~IsStruct(j, 1) THEN Err("invalid type")
  ELSE LET value == De_u64(Field(j, "value", 1))
       IN  IF ~value.ok THEN value ELSE Ok([value |-> value.v])

De_LatestBlockhash(j) ==
  IF j.t = "missing" THEN Err("missing field")
  ELSE IF ~IsStruct(j, 2) THEN Err("invalid type")
  ELSE LET blockhash == De_Hash(Field(j, "blockhash", 1))
           height == De_u64(Field(j, "lastValidBlockHeight", 2))
       IN  IF ~blockhash.ok THEN blockhash
           ELSE IF ~height.ok THEN height
           ELSE Ok([blockhash |-> blockhash.v, last_valid_block_height |-> height.v])

De_LatestBlockhashInfo(j) ==
  IF j.t = "missing" THEN Err("missing field")
  ELSE IF ~IsStruct(j, 1) THEN Err("invalid type")
  ELSE LET value == De_LatestBlockhash(Field(j, "value", 1))
       IN  IF ~value.ok THEN value ELSE Ok([value |-> value.v])

\* The payload type each operation asks for.
De_Payload(ty, j) ==
  CASE ty = "Option<AccountInfo>" -> De_Option_AccountInfo(j)
    [] ty = "BalanceInfo" -> De_BalanceInfo(j)
    [] ty = "LatestBlockhashInfo" -> De_LatestBlockhashInfo(j)
    [] ty = "String" -> De_String(j)
    [] ty = "u64" -> De_u64(j)
    [] ty = "Vec<Option<AccountInfo>>" -> De_Vec_Option_AccountInfo(j)

\* RpcResponse<T> { result: T }
De_RpcResponse(ty, j) ==
  IF ~IsStruct(j, 1) THEN Err("invalid type")
  ELSE CHOOSE x \in {IF ~result.ok THEN result ELSE Ok([result |-> result.v]) :
                       result \in {De_Payload(ty, Field(j, "result", 1))}} : TRUE

\* serde_json::from_str::<Resp>(text); Resp is RpcResponse<ty> or, bare, ty.
from_str(resp, text) ==
  IF text.t = "text" THEN Err("expected value")
  ELSE IF resp.rpc THEN De_RpcResponse(resp.ty, text)
  ELSE De_Payload(resp.ty, text)

(***************************************************************************)
(* infrastructure/http: HttpError and NativeHttpClient.  What the network  *)
(* did with a request is a record: sent (FALSE: send() failed with err),   *)
(* status, readable (FALSE: text() failed) and body.                       *)
(***************************************************************************)
SendFailure ==
  [sent |-> FALSE, status |-> 0, readable |-> FALSE, body |-> Text(""),
   err |-> "error sending request"]

Answer(status, readable, body) ==
  [sent |-> TRUE, status |-> status, readable |-> readable, body |-> body,
   err |-> "error decoding response body"]

\* No request has been answered yet.
NoWire == [sent |-> FALSE, status |-> 0, readable |-> FALSE, body |-> Text(""),
           err |-> "none"]

RequestError(msg) == [k |-> "RequestError", msg |-> msg]

HttpStatusError(status, message) ==
  [k |-> "HttpStatusError", status |-> status, message |-> message]

ResponseError(msg) == [k |-> "ResponseError", msg |-> msg]

DeserializationError(msg) == [k |-> "DeserializationError", msg |-> msg]

SerializationError(msg) == [k |-> "SerializationError", msg |-> msg]

\* A request body whose Serialize implementation fails.
Unencodable == [t |-> "unencodable"]

\* serde_json::to_string(body), and the to_vec(body) inside reqwest's .json(body)
to_string(body) ==
  IF body = Unencodable THEN Err("the body cannot be serialized") ELSE Ok(body)

is_success(status) == 200 <= status /\ status <= 299

\* Mutant: the body is read before the status is looked at.
NativeHttpClient_receive_ReadFirst(resp, w) ==
  IF ~w.sent THEN Err(RequestError(w.err))
  ELSE IF ~w.readable THEN Err(ResponseError(w.err))
  ELSE IF ~is_success(w.status) THEN Err(HttpStatusError(w.status, w.body))
  ELSE CHOOSE x \in {IF r.ok THEN r ELSE Err(DeserializationError(r.e)) :
                       r \in {from_str(resp, w.body)}} : TRUE

\* Mutant: a body that cannot be read leaves the message empty.
NativeHttpClient_receive_EmptyMessage(resp, w) ==
  IF ~w.sent THEN Err(RequestError(w.err))
  ELSE IF ~is_success(w.status)
    THEN Err(HttpStatusError(w.status, IF w.readable THEN w.body ELSE Text("")))
  ELSE IF ~w.readable THEN Err(ResponseError(w.err))
  ELSE CHOOSE x \in {IF r.ok THEN r ELSE Err(DeserializationError(r.e)) :
                       r \in {from_str(resp, w.body)}} : TRUE

\* Everything after send(): the status check, text() and from_str.
NativeHttpClient_receive(resp, w) ==
  IF ~w.sent THEN Err(RequestError(w.err))
  ELSE IF ~is_success(w.status)
    THEN Err(HttpStatusError(w.status,
               IF w.readable THEN w.body ELSE Text("Unknown error")))
  ELSE IF ~w.readable THEN Err(ResponseError(w.err))
  ELSE CHOOSE x \in {IF r.ok THEN r ELSE Err(DeserializationError(r.e)) :
                       r \in {from_str(resp, w.body)}} : TRUE

NativeHttpClient_post_json(resp, w) == NativeHttpClient_receive(resp, w)

NativeHttpClient_get(resp, w) == NativeHttpClient_receive(resp, w)

\* .json(body).send(): reqwest keeps a failure to encode the body in the
\* request builder and send() returns it without sending anything.
NativeHttpClient_send(body) ==
  IF to_string(body).ok THEN Ok(body) ELSE Err(RequestError(to_string(body).e))

(***************************************************************************)
(* infrastructure/http: WasmHttpClient (target_arch = "wasm32").           *)
(***************************************************************************)
\* Response::ok()
Response_ok(status) == 200 <= status /\ status <= 299

\* Everything after send(): response.ok(), text() and from_str.
WasmHttpClient_receive(resp, w) ==
  IF ~w.sent THEN Err(RequestError(w.err))
  ELSE IF ~Response_ok(w.status)
    THEN Err(HttpStatusError(w.status,
               IF w.readable THEN w.body ELSE Text("Unknown error")))
  ELSE IF ~w.readable THEN Err(ResponseError(w.err))
  ELSE CHOOSE x \in {IF r.ok THEN r ELSE Err(DeserializationError(r.e)) :
                       r \in {from_str(resp, w.body)}} : TRUE

WasmHttpClient_post_json(resp, body, w) ==
  IF ~to_string(body).ok THEN Err(SerializationError(to_string(body).e))
  ELSE WasmHttpClient_receive(resp, w)

WasmHttpClient_get(resp, w) == WasmHttpClient_receive(resp, w)

(***************************************************************************)
(* infrastructure/rpc: RpcRequest, RpcError, Account, SolanaRpcClient.     *)
(***************************************************************************)
RpcRequest_new(name) ==
  [jsonrpc |-> "2.0", id |-> 1, method |-> name, params |-> << >>]

\* Mutant: the new parameter goes in front of the earlier ones.
RpcRequest_param_Prepend(self, param) == [self EXCEPT !.params = << param >> \o @]

RpcRequest_param(self, param) == [self EXCEPT !.params = Append(@, param)]

\* json!({"encoding": "base64"})
EncodingBase64 == JObj([encoding |-> JStr(Chars_base64)])

RpcError_Http(e) == [k |-> "Http", cause |-> e]

RpcError_InvalidSignature(e) == [k |-> "InvalidSignature", cause |-> e]

\* Mutant: the transport's error is replaced by a fresh one.
map_err_Http_Fresh(r) ==
  IF r.ok THEN r ELSE Err(RpcError_Http(RequestError("transport error")))

\* response.map_err(RpcError::Http)?
map_err_Http(r) == IF r.ok THEN r ELSE Err(RpcError_Http(r.e))

AccountData_decode_data(self) == base64_decode(self.data)

\* info.data.decode_data().unwrap_or_default() and the Account built from info
Account_from_info(pubkey, info) ==
  LET decoded == AccountData_decode_data(info.data)
      data == IF decoded.ok THEN decoded.v ELSE << >>
  IN  Account(pubkey, info.lamports, data, info.owner, info.executable,
              info.rent_epoch)

Panicked == [panic |-> "index out of bounds"]

Methods ==
  [get_account_info |-> "getAccountInfo", get_balance |-> "getBalance",
   get_latest_blockhash |-> "getLatestBlockhash",
   send_transaction |-> "sendTransaction", get_block_height |-> "getBlockHeight",
   get_multiple_accounts |-> "getMultipleAccounts"]

RpcOps == DOMAIN Methods

\* The request each operation builds from its argument.
get_account_info_request(pubkey) ==
  RpcRequest_param(
    RpcRequest_param(RpcRequest_new("getAccountInfo"), JStr(Pubkey_to_base58(pubkey))),
    EncodingBase64)

get_balance_request(pubkey) ==
  RpcRequest_param(RpcRequest_new("getBalance"), JStr(Pubkey_to_base58(pubkey)))

get_latest_blockhash_request == RpcRequest_new("getLatestBlockhash")

send_transaction_request(transaction) ==
  RpcRequest_param(
    RpcRequest_param(RpcRequest_new("sendTransaction"), JStr(transaction)),
    EncodingBase64)

get_block_height_request == RpcRequest_new("getBlockHeight")

\* Mutant: the keys are sent last first.
get_multiple_accounts_request_Reversed(pubkeys) ==
  RpcRequest_param(
    RpcRequest_param(RpcRequest_new("getMultipleAccounts"),
      JArr([i \in 1..Len(pubkeys) |->
              JStr(Pubkey_to_base58(pubkeys[Len(pubkeys) + 1 - i]))])),
    EncodingBase64)

get_multiple_accounts_request(pubkeys) ==
  RpcRequest_param(
    RpcRequest_param(RpcRequest_new("getMultipleAccounts"),
      JArr([i \in 1..Len(pubkeys) |-> JStr(Pubkey_to_base58(pubkeys[i]))])),
    EncodingBase64)

\* What each operation makes of the transport's answer w.
get_account_info_result(pubkey, w) ==
  CHOOSE x \in
    {IF ~response.ok THEN response
     ELSE IF response.v.result.some
       THEN Ok(Some(Account_from_info(pubkey, response.v.result.v)))
       ELSE Ok(None) :
       response \in {map_err_Http(NativeHttpClient_post_json(
                       [ty |-> "Option<AccountInfo>", rpc |-> TRUE], w))}} : TRUE

get_balance_result(w) ==
  LET response == map_err_Http(
        NativeHttpClient_post_json([ty |-> "BalanceInfo", rpc |-> TRUE], w))
  IN  IF ~response.ok THEN response ELSE Ok(response.v.result.value)

get_latest_blockhash_result(w) ==
  LET response == map_err_Http(
        NativeHttpClient_post_json([ty |-> "LatestBlockhashInfo", rpc |-> TRUE], w))
  IN  IF ~response.ok THEN response ELSE Ok(response.v.result.value)

\* Mutant: the result is decoded as a Pubkey.
send_transaction_result_AsPubkey(w) ==
  LET response == map_err_Http(
        NativeHttpClient_post_json([ty |-> "String", rpc |-> TRUE], w))
  IN  IF ~response.ok THEN response
      ELSE CHOOSE x \in {IF sig.ok THEN sig ELSE Err(RpcError_InvalidSignature(sig.e)) :
                           sig \in {Pubkey_from_base58(response.v.result)}} : TRUE

send_transaction_result(w) ==
  LET response == map_err_Http(
        NativeHttpClient_post_json([ty |-> "String", rpc |-> TRUE], w))
  IN  IF ~response.ok THEN response
      ELSE CHOOSE x \in {IF sig.ok THEN sig ELSE Err(RpcError_InvalidSignature(sig.e)) :
                           sig \in {Signature_from_base58(response.v.result)}} : TRUE

get_block_height_result(w) ==
  LET response == map_err_Http(
        NativeHttpClient_post_json([ty |-> "u64", rpc |-> TRUE], w))
  IN  IF ~response.ok THEN response ELSE Ok(response.v.result)

\* pubkeys[i] is read only for an entry that is Some; past the end it panics.
get_multiple_accounts_result(pubkeys, w) ==
  CHOOSE x \in
    {IF ~response.ok THEN response
     ELSE LET infos == response.v.result
          IN  IF \E i \in 1..Len(infos) : infos[i].some /\ i > Len(pubkeys)
                THEN Panicked
                ELSE Ok([i \in 1..Len(infos) |->
                          IF infos[i].some
                            THEN Some(Account_from_info(pubkeys[i], infos[i].v))
                            ELSE None]) :
       response \in {map_err_Http(NativeHttpClient_post_json(
                       [ty |-> "Vec<Option<AccountInfo>>", rpc |-> TRUE], w))}} : TRUE

\* The request and the result of operation o called with a.
OpRequest(o, a) ==
  CASE o = "get_account_info" -> get_account_info_request(a)
    [] o = "get_balance" -> get_balance_request(a)
    [] o = "get_latest_blockhash" -> get_latest_blockhash_request
    [] o = "send_transaction" -> send_transaction_request(a)
    [] o = "get_block_height" -> get_block_height_request
    [] o = "get_multiple_accounts" -> get_multiple_accounts_request(a)

OpResult(o, a, w) ==
  CASE o = "get_account_info" -> get_account_info_result(a, w)
    [] o = "get_balance" -> get_balance_result(w)
    [] o = "get_latest_blockhash" -> get_latest_blockhash_result(w)
    [] o = "send_transaction" -> send_transaction_result(w)
    [] o = "get_block_height" -> get_block_height_result(w)
    [] o = "get_multiple_accounts" -> get_multiple_accounts_result(a, w)

(***************************************************************************)
(* infrastructure/rpc: Network, CommitmentLevel, RpcClientBuilder, and     *)
(* create_client of lib.rs.                                                *)
(***************************************************************************)
Network_Mainnet == [k |-> "Mainnet"]

Network_Testnet == [k |-> "Testnet"]

Network_Devnet == [k |-> "Devnet"]

Network_Custom(url) == [k |-> "Custom", url |-> url]

\* Mutant: a custom network answers with the local default.
Network_endpoint_CustomDefault(self) ==
  CASE self.k = "Mainnet" -> "https://api.mainnet-beta.solana.com"
    [] self.k = "Testnet" -> "https://api.testnet.solana.com"
    [] self.k = "Devnet" -> "https://api.devnet.solana.com"
    [] self.k = "Custom" -> "http://localhost:8899"

Network_endpoint(self) ==
  CASE self.k = "Mainnet" -> "https://api.mainnet-beta.solana.com"
    [] self.k = "Testnet" -> "https://api.testnet.solana.com"
    [] self.k = "Devnet" -> "https://api.devnet.solana.com"
    [] self.k = "Custom" -> self.url

surfpool_network == Network_Custom("http://127.0.0.1:8899")

CommitmentLevel == {"Processed", "Confirmed", "Finalized"}

DEFAULT_COMMITMENT == "Confirmed"

RpcClientConfig_default == [commitment |-> None]

SolanaRpcClient_new(e, http_client) == [http_client |-> http_client, endpoint |-> e]

SolanaRpcClient_with_endpoint(e) == SolanaRpcClient_new(e, "Native")

SolanaRpcClient_endpoint(self) == self.endpoint

RpcClientBuilder_new(e) == [endpoint |-> e, config |-> RpcClientConfig_default]

RpcClientBuilder_commitment(self, level) ==
  [self EXCEPT !.config.commitment = Some(level)]

\* Mutant: a builder that was given a commitment builds for the default
\* endpoint.
RpcClientBuilder_build_DefaultWhenCommitted(self) ==
  IF self.config.commitment.some
    THEN SolanaRpcClient_with_endpoint("https://api.mainnet-beta.solana.com")
    ELSE SolanaRpcClient_with_endpoint(self.endpoint)

RpcClientBuilder_build(self) == SolanaRpcClient_with_endpoint(self.endpoint)

\* The builder create_client makes of a network, and the client built of it.
create_client_builder(network) ==
  RpcClientBuilder_commitment(RpcClientBuilder_new(Network_endpoint(network)),
                              DEFAULT_COMMITMENT)

create_client(network) == RpcClientBuilder_build(create_client_builder(network))

(***************************************************************************)
(* The byte arrays and texts the identifier operations are run on.         *)
(***************************************************************************)
\* n bytes: z zero bytes, then the byte a, then bytes b.
ByteArray(n, z, a, b) ==
  [i \in 1..n |-> IF i <= z THEN 0 ELSE IF i = z + 1 THEN a ELSE b]

HeadBytes == {1, 255}

TailBytes == {0, 1, 255}

LeadZeros(n) == {z \in (0..MaxLeadZeros) \cup {n - 1, n} : 0 <= z /\ z <= n}

\* Lengths at and around the fixed sizes, and the shortest ones.
TestLens ==
  {n \in 0..(SIGNATURE_BYTES + LenSlack) :
     \/ n <= LenSlack
     \/ (PUBKEY_BYTES - LenSlack <= n /\ n <= PUBKEY_BYTES + LenSlack)
     \/ SIGNATURE_BYTES - LenSlack <= n}

\* Characters outside the base58 alphabet; the last stands for a non-ASCII one.
BadChars == {"0", "O", "I", "l", "U+00E9"}

\* s with its first or last character replaced by c (where = "none": s itself).
Corrupt(s, where, c) ==
  IF where = "none" \/ Len(s) = 0 THEN s
  ELSE IF where = "first" THEN [s EXCEPT ![1] = c]
  ELSE [s EXCEPT ![Len(s)] = c]

InvalidText == << "i", "n", "v", "a", "l", "i", "d" >>

\* Arrays of n bytes that differ in the first byte, in the last, or nowhere.
ComparedArrays(n) ==
  {ByteArray(n, 0, 1, 1), ByteArray(n, 0, 2, 1), ByteArray(n, 0, 1, 0),
   ByteArray(n, n, 0, 0), ByteArray(n, n - 1, 255, 0), ByteArray(n, n - 1, 1, 0)}

(***************************************************************************)
(* The arguments the client is called with and the answers of the network. *)
(***************************************************************************)
SYSTEM_PROGRAM_ID == ByteArray(PUBKEY_BYTES, PUBKEY_BYTES, 0, 0)

PubkeyOnes == ByteArray(PUBKEY_BYTES, 0, 1, 1)

KeyPool == << SYSTEM_PROGRAM_ID, PubkeyOnes >>

\* Every list of at most n keys of the pool.
RECURSIVE KeyLists(_)
KeyLists(n) ==
  IF n = 0 THEN {<< >>}
  ELSE KeyLists(n - 1) \cup
       {Append(l, KeyPool[i]) : l \in {x \in KeyLists(n - 1) : Len(x) = n - 1},
                                i \in 1..Len(KeyPool)}

Transactions == {<< "A", "Q", "=", "=" >>}

Endpoints == {"http://127.0.0.1:8899", "https://api.devnet.solana.com"}

Chars_2_0 == << "2", ".", "0" >>

SystemProgramText == Repeat("1", PUBKEY_BYTES)

PubkeyOnesText == bs58_encode(PubkeyOnes)

SignatureOnesText == bs58_encode(ByteArray(SIGNATURE_BYTES, 0, 1, 1))

SignatureZeroText == Repeat("1", SIGNATURE_BYTES)

\* An account as the client's AccountInfo reads it.
AccountJson(lamports, data, owner) ==
  JObj([lamports |-> JNum(lamports), data |-> JObj([data |-> JStr(data)]),
        owner |-> JStr(owner), executable |-> JBool(FALSE), rent_epoch |-> JNum(3)])

AccountA == AccountJson(10, << "A", "Q", "I", "D" >>, SystemProgramText)

\* The same account with a data text that is not base64.
AccountBadData == AccountJson(11, << "A", "Q", "=" >>, SystemProgramText)

AccountBadOwner == AccountJson(12, << >>, InvalidText)

\* An account as a node writes it: rentEpoch, and data as [text, encoding].
AccountNodeStyle ==
  JObj([lamports |-> JNum(10),
        data |-> JArr(<< JStr(<< "A", "Q", "I", "D" >>), JStr(Chars_base64) >>),
        owner |-> JStr(SystemProgramText), executable |-> JBool(FALSE),
        rentEpoch |-> JNum(3)])

Context == JObj([slot |-> JNum(1)])

\* A value as a node wraps it: {"context": {"slot": 1}, "value": value}.
WithContext(value) == JObj([value |-> value, context |-> Context])

\* Every list of at most n entries, each null or AccountA.
RECURSIVE AccountLists(_)
AccountLists(n) ==
  IF n = 0 THEN {<< >>}
  ELSE AccountLists(n - 1) \cup
       {Append(l, e) : l \in {x \in AccountLists(n - 1) : Len(x) = n - 1},
                       e \in {JNull, AccountA}}

\* The payloads put under "result".
ScalarPayloads ==
  << JNull, JNum(0), JNum(5), JNum(-1),
     JStr(SignatureOnesText), JStr(SignatureZeroText), JStr(SystemProgramText),
     JStr(InvalidText), JStr(<< >>),
     WithContext(JNum(0)),
     JObj([value |-> JNum(7)]),
     WithContext(JNull),
     WithContext(AccountNodeStyle),
     AccountA, AccountBadData, AccountBadOwner, AccountNodeStyle,
     JArr(<< AccountBadData, JNull >>),
     JArr(<< JNum(5) >>),
     WithContext(JObj([blockhash |-> JStr(PubkeyOnesText),
                       lastValidBlockHeight |-> JNum(100)])),
     WithContext(JObj([blockhash |-> JStr(SignatureZeroText),
                       lastValidBlockHeight |-> JNum(100)])) >>

Envelope(payload) ==
  JObj([result |-> payload, jsonrpc |-> JStr(Chars_2_0), id |-> JNum(1)])

\* A JSON-RPC error answer: no "result" key.
ErrorObject ==
  JObj([jsonrpc |-> JStr(Chars_2_0), id |-> JNum(1),
        error |-> JObj([message |-> JStr(InvalidText), code |-> JNum(-32601)])])

\* Bodies that are not a result envelope.
OtherBodies ==
  << Text("server error"), Text(""), ErrorObject, JObj([id |-> JNum(1)]),
     JNull, JNum(5), JArr(<< JNum(5) >>), JArr(<< >>) >>

Bodies ==
  {Envelope(ScalarPayloads[i]) : i \in 1..Len(ScalarPayloads)}
    \cup {Envelope(JArr(l)) : l \in AccountLists(MaxKeys + 1)}
    \cup {OtherBodies[i] : i \in 1..Len(OtherBodies)}

\* Bodies sent with a status that is not 2xx.
ErrorBodies ==
  {Text("server error"), Text(""), ErrorObject, Envelope(JNum(5)), JNum(5)}

\* The bodies HttpClient::post_json is called with directly.
PostBodies == {JObj([id |-> JNum(1)]), Unencodable}

SuccessStatuses == {200, 299}

ErrorStatuses == {300, 404, 500}

\* Everything the network may do with a request.
Wires ==
  {SendFailure}
    \cup {Answer(s, TRUE, b) : s \in SuccessStatuses, b \in Bodies}
    \cup {Answer(s, FALSE, Text("")) : s \in SuccessStatuses \cup ErrorStatuses}
    \cup {Answer(s, TRUE, b) : s \in ErrorStatuses, b \in ErrorBodies}

\* The networks a program holds, and the commitment levels given to a
\* builder: none, one, or one after another.
Networks == {Network_Mainnet, Network_Testnet, Network_Devnet, surfpool_network}

LevelLists == {<< >>, << "Confirmed" >>, << "Processed", "Finalized" >>}

ConcLevelLists == {<< >>, << "Confirmed" >>, << "Finalized" >>}

\* The calls made on the handles and the answers of the network to them.
CallPool ==
  << [op |-> "get_block_height", arg |-> << >>],
     [op |-> "get_balance", arg |-> SYSTEM_PROGRAM_ID] >>

CallWires ==
  {SendFailure, Answer(200, TRUE, Envelope(JNum(5))),
   Answer(500, TRUE, Text("server error"))}

NoRequest == [verb |-> "none"]

NoOutcome == [pending |-> TRUE]

VARIABLES
  endpoint, \* SolanaRpcClient.endpoint
  pc,       \* "idle", "awaiting" (the call is at its .await), "done"
  op,       \* the operation called
  arg,      \* its argument
  request,  \* the HTTP request it sent
  posts,    \* HTTP requests sent so far
  wire,     \* what the network did with the request
  outcome   \* what the call returned

rvars == << endpoint, pc, op, arg, request, posts, wire, outcome >>

VARIABLES
  t_op,     \* the identifier operation last run: "none", "roundtrip", "from_base58"
  t_kind,   \* the type it ran on
  t_bytes,  \* the byte array it started from
  t_where,  \* which character of the text was replaced: "none", "first", "last"
  t_str,    \* the text produced by to_base58, or handed to from_base58
  t_res,    \* the Result of from_base58 or deserialize, or of a comparison
  t_json,   \* the JSON value produced by serialize, or handed to deserialize
  t_other   \* the byte array t_bytes is compared with

tvars == << t_op, t_kind, t_bytes, t_where, t_str, t_res, t_json, t_other >>

VARIABLES
  network,  \* the Network value the program holds
  clients,  \* the client handles made so far, each with what it was made of
  calls     \* the calls made on them, each at its own position

cvars == << network, clients, calls >>

VARIABLES
  service,  \* the call made on a NetworkService and the requests it sent
  programs, \* ProgramService.deployed_programs
  p_called, \* the program ids deploy_program was called for
  p_last,   \* the last call on the ProgramService, with what it returned
  acct,     \* a ProgramAccount
  a_hist,   \* the calls made on it: how many, the last one, and the sum
            \* initial balance + additions - successful subtractions
  counter,  \* the counter program's account at the counter address
  c_hist    \* the instructions sent to it: how many, and the last one

avars == << service, programs, p_called, p_last, acct, a_hist, counter, c_hist >>

vars == << tvars, rvars, cvars, avars >>

\* A service on which nothing was called.
IdleService ==
  [sent |-> << >>,
   pc |-> "idle",
   outcome |-> NoOutcome,
   wires |-> << >>,
   fn |-> "none"]

InitAppVars ==
  /\ service = IdleService
  /\ programs = << >>
  /\ p_called = {}
  /\ p_last = [fn |-> "none"]
  /\ acct = << >>
  /\ a_hist = << >>
  /\ counter = << >>
  /\ c_hist = [ops |-> 0, last |-> [ix |-> "none"]]

\* No handle has been made and no call slot is in use.
InitClientsVars ==
  /\ network = surfpool_network
  /\ clients = << >>
  /\ calls = << >>

InitTypesVars ==
  /\ t_op = "none"
  /\ t_kind = "Pubkey"
  /\ t_bytes = << >>
  /\ t_where = "none"
  /\ t_str = << >>
  /\ t_res = Err("none")
  /\ t_json = JNull
  /\ t_other = << >>

InitRpc ==
  /\ pc = "idle"
  /\ op = "none"
  /\ arg = << >>
  /\ request = NoRequest
  /\ posts = 0
  /\ wire = NoWire
  /\ outcome = NoOutcome

InitTypes ==
  /\ InitTypesVars
  /\ endpoint = "http://127.0.0.1:8899"
  /\ InitRpc
  /\ InitAppVars
  /\ InitClientsVars

\* K::from_base58(K::new(b).to_base58())
RoundTrip(kind, b) ==
  /\ t_op = "none"
  /\ t_op' = "roundtrip"
  /\ t_kind' = kind
  /\ t_bytes' = b
  /\ t_where' = "none"
  /\ t_str' = KindToBase58(kind, KindNew(kind, b))
  /\ t_res' = KindFromBase58(kind, t_str')
  /\ UNCHANGED << t_json, t_other, rvars, cvars, avars >>

\* K::from_base58(s), s the base58 text of b with one character replaced or not.
FromBase58(kind, b, where, c) ==
  /\ t_op = "none"
  /\ t_op' = "from_base58"
  /\ t_kind' = kind
  /\ t_bytes' = b
  /\ t_where' = where
  /\ t_str' = Corrupt(bs58_encode(b), where, c)
  /\ t_res' = KindFromBase58(kind, t_str')
  /\ UNCHANGED << t_json, t_other, rvars, cvars, avars >>

\* K::from_base58("invalid")
FromInvalid(kind) ==
  /\ t_op = "none"
  /\ t_op' = "from_base58"
  /\ t_kind' = kind
  /\ t_bytes' = << >>
  /\ t_where' = "first"
  /\ t_str' = InvalidText
  /\ t_res' = KindFromBase58(kind, t_str')
  /\ UNCHANGED << t_json, t_other, rvars, cvars, avars >>

\* serde_json::from_value::<K>(serde_json::to_value(K::new(b)))
SerdeRoundTrip(kind, b) ==
  /\ t_op = "none"
  /\ t_op' = "serde"
  /\ t_kind' = kind
  /\ t_bytes' = b
  /\ t_where' = "none"
  /\ t_str' = KindToBase58(kind, KindNew(kind, b))
  /\ t_json' = KindSerialize(kind, KindNew(kind, b))
  /\ t_res' = KindDeserialize(kind, t_json')
  /\ UNCHANGED << t_other, rvars, cvars, avars >>

\* serde_json::from_value::<K>(j)
Deserialize(kind, b, where, s, j) ==
  /\ t_op = "none"
  /\ t_op' = "deserialize"
  /\ t_kind' = kind
  /\ t_bytes' = b
  /\ t_where' = where
  /\ t_str' = s
  /\ t_json' = j
  /\ t_res' = KindDeserialize(kind, j)
  /\ UNCHANGED << t_other, rvars, cvars, avars >>

\* K::new(x) == K::new(y) and K::new(x) < K::new(y)
Compare(kind, x, y) ==
  /\ t_op = "none"
  /\ t_op' = "compare"
  /\ t_kind' = kind
  /\ t_bytes' = x
  /\ t_other' = y
  /\ t_res' = KindCompare(kind, KindNew(kind, x), KindNew(kind, y))
  /\ UNCHANGED << t_where, t_str, t_json, rvars, cvars, avars >>

NextTypes ==
  \/ \E kind \in Kinds : \E z \in LeadZeros(KindBytes(kind)) :
       \E a \in HeadBytes, b \in TailBytes :
         RoundTrip(kind, ByteArray(KindBytes(kind), z, a, b))
  \/ \E kind \in Kinds : \E n \in TestLens : \E z \in {0, 1, n} :
       FromBase58(kind, ByteArray(n, z, 255, 1), "none", "1")
  \/ \E kind \in Kinds : \E n \in TestLens \ {0} :
       \E where \in {"first", "last"} : \E c \in BadChars \cup {"1", "z"} :
         FromBase58(kind, ByteArray(n, 0, 255, 1), where, c)
  \/ \E kind \in Kinds : FromInvalid(kind)
  \/ \E kind \in Kinds : \E z \in LeadZeros(KindBytes(kind)) :
       \E a \in HeadBytes, b \in TailBytes :
         SerdeRoundTrip(kind, ByteArray(KindBytes(kind), z, a, b))
  \/ \E kind \in Kinds : \E n \in TestLens : \E c \in BadChars \cup {"1"} :
       \E where \in {"none", "first"} : \E b \in {ByteArray(n, 0, 255, 1)} :
         \E s \in {Corrupt(bs58_encode(b), where, c)} :
           Deserialize(kind, b, where, s, JStr(s))
  \/ \E kind \in Kinds : \E b \in {ByteArray(KindBytes(kind), 0, 1, 1)} :
       \E j \in {JNull, JNum(1), JArr([i \in 1..Len(b) |-> JNum(b[i])]),
                  JObj([str |-> JStr(bs58_encode(b))])} :
         Deserialize(kind, b, "first", << >>, j)
  \/ \E kind \in Kinds : \E x, y \in ComparedArrays(KindBytes(kind)) :
       Compare(kind, x, y)

SpecTypes == InitTypes /\ [][NextTypes]_vars

(***************************************************************************)
(* The client: one call at a time, each sending one request and returning  *)
(* when the network has answered.                                          *)
(***************************************************************************)
Init ==
  /\ InitTypesVars
  /\ endpoint \in Endpoints
  /\ InitRpc
  /\ InitAppVars
  /\ InitClientsVars

\* The part every operation shares up to its .await: the request is posted.
Send(o, a, req) ==
  /\ pc = "idle"
  /\ posts < MaxPosts
  /\ pc' = "awaiting"
  /\ op' = o
  /\ arg' = a
  /\ request' = [url |-> endpoint, verb |-> "POST", json |-> req]
  /\ posts' = posts + 1
  /\ wire' = NoWire
  /\ outcome' = NoOutcome
  /\ UNCHANGED << endpoint, tvars, cvars, avars >>

\* Mutant: a call that failed posts its request again.
Return_Retry(o, w, r) ==
  /\ pc = "awaiting"
  /\ op = o
  /\ wire' = w
  /\ IF "ok" \in DOMAIN r /\ ~r.ok /\ posts < MaxPosts
       THEN pc' = "awaiting" /\ posts' = posts + 1 /\ outcome' = NoOutcome
       ELSE pc' = "done" /\ posts' = posts /\ outcome' = r
  /\ UNCHANGED << endpoint, op, arg, request, tvars, cvars, avars >>

\* The part after the .await: the network did w, the call returns r.
Return(o, w, r) ==
  /\ pc = "awaiting"
  /\ op = o
  /\ pc' = "done"
  /\ wire' = w
  /\ outcome' = r
  /\ UNCHANGED << endpoint, op, arg, request, posts, tvars, cvars, avars >>

get_account_info(pubkey) ==
  Send("get_account_info", pubkey, get_account_info_request(pubkey))

get_account_info_return(w) ==
  Return("get_account_info", w, get_account_info_result(arg, w))

get_balance(pubkey) ==
  Send("get_balance", pubkey, get_balance_request(pubkey))

get_balance_return(w) ==
  Return("get_balance", w, get_balance_result(w))

get_latest_blockhash ==
  Send("get_latest_blockhash", << >>, get_latest_blockhash_request)

get_latest_blockhash_return(w) ==
  Return("get_latest_blockhash", w, get_latest_blockhash_result(w))

send_transaction(transaction) ==
  Send("send_transaction", transaction, send_transaction_request(transaction))

send_transaction_return(w) ==
  Return("send_transaction", w, send_transaction_result(w))

get_block_height ==
  Send("get_block_height", << >>, get_block_height_request)

get_block_height_return(w) ==
  Return("get_block_height", w, get_block_height_result(w))

get_multiple_accounts(pubkeys) ==
  Send("get_multiple_accounts", pubkeys, get_multiple_accounts_request(pubkeys))

get_multiple_accounts_return(w) ==
  Return("get_multiple_accounts", w, get_multiple_accounts_result(arg, w))

\* HttpClient::get::<u64>(url) called directly.
http_get(url) ==
  /\ pc = "idle"
  /\ posts < MaxPosts
  /\ pc' = "awaiting"
  /\ op' = "http_get"
  /\ arg' = url
  /\ request' = [url |-> url, verb |-> "GET", json |-> Missing]
  /\ posts' = posts + 1
  /\ wire' = NoWire
  /\ outcome' = NoOutcome
  /\ UNCHANGED << endpoint, tvars, cvars, avars >>

http_get_return(w) ==
  Return("http_get", w, NativeHttpClient_get([ty |-> "u64", rpc |-> FALSE], w))

\* HttpClient::post_json::<_, u64>(url, body) called directly: a body that
\* cannot be encoded ends the call before anything is sent.
http_post_json(url, body) ==
  /\ pc = "idle"
  /\ posts < MaxPosts
  /\ op' = "http_post_json"
  /\ arg' = body
  /\ wire' = NoWire
  /\ IF NativeHttpClient_send(body).ok
       THEN /\ pc' = "awaiting"
            /\ request' = [url |-> url, verb |-> "POST", json |-> body]
            /\ posts' = posts + 1
            /\ outcome' = NoOutcome
       ELSE /\ pc' = "done"
            /\ request' = NoRequest
            /\ posts' = posts
            /\ outcome' = NativeHttpClient_send(body)
  /\ UNCHANGED << endpoint, tvars, cvars, avars >>

http_post_json_return(w) ==
  Return("http_post_json", w,
         NativeHttpClient_post_json([ty |-> "u64", rpc |-> FALSE], w))

\* The caller takes the result; the client can be called again.
Finish ==
  /\ pc = "done"
  /\ outcome # Panicked
  /\ pc' = "idle"
  /\ UNCHANGED << endpoint, op, arg, request, posts, wire, outcome, tvars, cvars, avars >>

Next ==
  \/ \E i \in 1..Len(KeyPool) : get_account_info(KeyPool[i])
  \/ \E w \in Wires : get_account_info_return(w)
  \/ \E i \in 1..Len(KeyPool) : get_balance(KeyPool[i])
  \/ \E w \in Wires : get_balance_return(w)
  \/ get_latest_blockhash
  \/ \E w \in Wires : get_latest_blockhash_return(w)
  \/ \E t \in Transactions : send_transaction(t)
  \/ \E w \in Wires : send_transaction_return(w)
  \/ get_block_height
  \/ \E w \in Wires : get_block_height_return(w)
  \/ \E l \in KeyLists(MaxKeys) : get_multiple_accounts(l)
  \/ \E w \in Wires : get_multiple_accounts_return(w)
  \/ \E u \in Endpoints : http_get(u)
  \/ \E w \in Wires : http_get_return(w)
  \/ \E u \in Endpoints : \E b \in PostBodies : http_post_json(u, b)
  \/ \E w \in Wires : http_post_json_return(w)
  \/ Finish

Spec == Init /\ [][Next]_vars

(***************************************************************************)
(* Client handles: made by the builder, by create_client or by clone, and  *)
(* called concurrently.  Every call is a future of its own: it posts its   *)
(* request when it is first polled and returns when its response is there, *)
(* in any order with the other calls.                                      *)
(***************************************************************************)
\* A handle with the endpoint and the commitment levels its builder was given.
Handle(client, by, given, levels) ==
  [client |-> client, by |-> by, given |-> given, levels |-> levels]

IdleCall ==
  [op |-> "none", arg |-> << >>, pc |-> "idle",
   request |-> NoRequest, wire |-> NoWire, outcome |-> NoOutcome, handle |-> 0]

\* RpcClientBuilder b after .commitment(l) for each l of levels in turn.
RECURSIVE WithCommitments(_, _)
WithCommitments(b, levels) ==
  IF levels = << >> THEN b
  ELSE WithCommitments(RpcClientBuilder_commitment(b, Head(levels)), Tail(levels))

\* RpcClientBuilder::new(e).commitment(..)...build()
build(e, levels) ==
  /\ Len(clients) < MaxClients
  /\ clients' = Append(clients,
       Handle(RpcClientBuilder_build(WithCommitments(RpcClientBuilder_new(e), levels)),
              "builder", e, levels))
  /\ UNCHANGED << network, calls, tvars, rvars, avars >>

\* create_client(network.clone())
create_client_call ==
  /\ Len(clients) < MaxClients
  /\ clients' = Append(clients,
       Handle(create_client(network), "create_client",
              Network_endpoint(network), << DEFAULT_COMMITMENT >>))
  /\ UNCHANGED << network, calls, tvars, rvars, avars >>

\* client.clone()
clone(h) ==
  /\ Len(clients) < MaxClients
  /\ h \in 1..Len(clients)
  /\ clients' = Append(clients, clients[h])
  /\ UNCHANGED << network, calls, tvars, rvars, avars >>

\* Mutant: the request carries the commitment the builder was given.
call_WithCommitment(i, h, o, a) ==
  /\ i \in 1..Len(calls)
  /\ h \in 1..Len(clients)
  /\ calls[i].pc = "idle"
  /\ IF i = 1 THEN TRUE ELSE calls[i - 1].pc # "idle"
  /\ calls' = [calls EXCEPT ![i] =
       [op |-> o, arg |-> a, pc |-> "awaiting",
        request |-> [url |-> SolanaRpcClient_endpoint(clients[h].client),
                     verb |-> "POST",
                     json |-> IF clients[h].levels = << >> THEN OpRequest(o, a)
                              ELSE RpcRequest_param(OpRequest(o, a),
                                     JObj([commitment |->
                                       JStr(clients[h].levels[Len(clients[h].levels)])]))],
        wire |-> NoWire, outcome |-> NoOutcome, handle |-> h]]
  /\ UNCHANGED << network, clients, tvars, rvars, avars >>

\* Operation o called with a on handle h, up to its .await; the slots are
\* taken in the order the calls are made.
call(i, h, o, a) ==
  /\ i \in 1..Len(calls)
  /\ h \in 1..Len(clients)
  /\ calls[i].pc = "idle"
  /\ IF i = 1 THEN TRUE ELSE calls[i - 1].pc # "idle"
  /\ calls' = [calls EXCEPT ![i] =
       [op |-> o, arg |-> a, pc |-> "awaiting",
        request |-> [url |-> SolanaRpcClient_endpoint(clients[h].client),
                     verb |-> "POST",
                     json |-> OpRequest(o, a)],
        wire |-> NoWire, outcome |-> NoOutcome, handle |-> h]]
  /\ UNCHANGED << network, clients, tvars, rvars, avars >>

\* Mutant: the client keeps the last response and every call returns what it
\* makes of that one.
call_return_LastResponse(i, w) ==
  /\ i \in 1..Len(calls)
  /\ calls[i].pc = "awaiting"
  /\ calls' = [calls EXCEPT ![i] =
       [@ EXCEPT !.pc = "done", !.wire = w,
                 !.outcome =
                   IF \E j \in 1..Len(calls) : calls[j].pc = "done"
                     THEN OpResult(calls[i].op, calls[i].arg,
                            calls[CHOOSE j \in 1..Len(calls) : calls[j].pc = "done"].wire)
                     ELSE OpResult(calls[i].op, calls[i].arg, w)]]
  /\ UNCHANGED << network, clients, tvars, rvars, avars >>

\* The call in slot i from its .await: the network did w with its request.
call_return(i, w) ==
  /\ i \in 1..Len(calls)
  /\ calls[i].pc = "awaiting"
  /\ calls' = [calls EXCEPT ![i] =
       [@ EXCEPT !.pc = "done", !.wire = w,
                 !.outcome = OpResult(calls[i].op, calls[i].arg, w)]]
  /\ UNCHANGED << network, clients, tvars, rvars, avars >>

\* Making handles, with one call at a time on them.
InitBuild ==
  /\ InitTypesVars
  /\ endpoint = "http://127.0.0.1:8899"
  /\ InitRpc
  /\ InitAppVars
  /\ network \in Networks
  /\ clients = << >>
  /\ calls = << IdleCall >>

NextBuild ==
  \/ \E e \in {Network_endpoint(network), "http://localhost:8899"} :
       \E levels \in LevelLists : build(e, levels)
  \/ create_client_call
  \/ \E h \in 1..Len(clients) : clone(h)
  \/ \E h \in 1..Len(clients) : \E n \in 1..Len(CallPool) :
       call(1, h, CallPool[n].op, CallPool[n].arg)
  \/ \E w \in CallWires : call_return(1, w)

SpecBuild == InitBuild /\ [][NextBuild]_vars

\* Concurrent calls on handles of one endpoint.
InitConc ==
  /\ InitTypesVars
  /\ endpoint = "http://127.0.0.1:8899"
  /\ InitRpc
  /\ InitAppVars
  /\ network = surfpool_network
  /\ clients = << >>
  /\ calls = [i \in 1..MaxCalls |-> IdleCall]

NextConc ==
  \/ \E levels \in ConcLevelLists : build(Network_endpoint(network), levels)
  \/ \E h \in 1..Len(clients) : clone(h)
  \/ \E i \in 1..MaxCalls : \E h \in 1..Len(clients) : \E n \in 1..Len(CallPool) :
       call(i, h, CallPool[n].op, CallPool[n].arg)
  \/ \E i \in 1..MaxCalls : \E w \in CallWires : call_return(i, w)

SpecConc == InitConc /\ [][NextConc]_vars

(***************************************************************************)
(* NetworkService: health_check and get_network_status, each an async fn   *)
(* over the RPC operations of its client.                                  *)
(***************************************************************************)
\* From<RpcError> for Box<dyn Error>, by ? and by Into::into
Box_from(e) == [boxed |-> e]

NetworkStatus(is_connected, block_height, latest_blockhash) ==
  [is_connected |-> is_connected, block_height |-> block_height,
   latest_blockhash |-> latest_blockhash]

\* The request the service's client posts for operation o.
ServiceRequest(o) == [url |-> endpoint, verb |-> "POST", json |-> OpRequest(o, << >>)]

\* Mutant: a failure of the call is handed on to the caller.
NetworkService_health_check_HandsOn(r) ==
  IF r.ok THEN Ok(TRUE) ELSE Err(Box_from(r.e))

\* match self.rpc_client.get_block_height().await { Ok(_) => .., Err(_) => .. }
NetworkService_health_check(r) ==
  IF r.ok THEN Ok(TRUE) ELSE Ok(FALSE)

\* health_check up to the .await of its get_block_height
health_check ==
  /\ service.pc = "idle"
  /\ service' = [sent |-> << ServiceRequest("get_block_height") >>,
                 pc |-> "height",
                 outcome |-> NoOutcome,
                 wires |-> << >>,
                 fn |-> "health_check"]
  /\ UNCHANGED << tvars, rvars, cvars, programs, p_called, p_last, acct, a_hist, counter, c_hist >>

health_check_return(w) ==
  /\ service.fn = "health_check"
  /\ service.pc = "height"
  /\ service' = [service EXCEPT
       !.pc = "done",
       !.wires = Append(@, w),
       !.outcome = NetworkService_health_check(get_block_height_result(w))]
  /\ UNCHANGED << tvars, rvars, cvars, programs, p_called, p_last, acct, a_hist, counter, c_hist >>

\* get_network_status up to the .await of its get_block_height
get_network_status ==
  /\ service.pc = "idle"
  /\ service' = [sent |-> << ServiceRequest("get_block_height") >>,
                 pc |-> "height",
                 outcome |-> NoOutcome,
                 wires |-> << >>,
                 fn |-> "get_network_status"]
  /\ UNCHANGED << tvars, rvars, cvars, programs, p_called, p_last, acct, a_hist, counter, c_hist >>

\* Mutant: the blockhash is asked for whatever became of the block height.
get_network_status_height_AsksAnyway(w) ==
  /\ service.fn = "get_network_status"
  /\ service.pc = "height"
  /\ service' = [service EXCEPT
       !.pc = "blockhash",
       !.sent = Append(@, ServiceRequest("get_latest_blockhash")),
       !.wires = Append(@, w)]
  /\ UNCHANGED << tvars, rvars, cvars, programs, p_called, p_last, acct, a_hist, counter, c_hist >>

\* let block_height = self.rpc_client.get_block_height().await?; and on to the
\* .await of get_latest_blockhash
get_network_status_height(w) ==
  /\ service.fn = "get_network_status"
  /\ service.pc = "height"
  /\ \E r \in {get_block_height_result(w)} :
       service' = IF r.ok
         THEN [service EXCEPT
                 !.pc = "blockhash",
                 !.sent = Append(@, ServiceRequest("get_latest_blockhash")),
                 !.wires = Append(@, w)]
         ELSE [service EXCEPT
                 !.pc = "done",
                 !.wires = Append(@, w),
                 !.outcome = Err(Box_from(r.e))]
  /\ UNCHANGED << tvars, rvars, cvars, programs, p_called, p_last, acct, a_hist, counter, c_hist >>

\* let latest_blockhash = self.rpc_client.get_latest_blockhash().await?; and
\* the NetworkStatus returned
get_network_status_blockhash(w) ==
  /\ service.fn = "get_network_status"
  /\ service.pc = "blockhash"
  /\ \E block_height \in {get_block_height_result(service.wires[1])},
         latest_blockhash \in {get_latest_blockhash_result(w)} :
       service' = [service EXCEPT
         !.pc = "done",
         !.wires = Append(@, w),
         !.outcome =
           IF ~block_height.ok THEN Err(Box_from(block_height.e))
           ELSE IF ~latest_blockhash.ok THEN Err(Box_from(latest_blockhash.e))
           ELSE Ok(NetworkStatus(TRUE, block_height.v, latest_blockhash.v))]
  /\ UNCHANGED << tvars, rvars, cvars, programs, p_called, p_last, acct, a_hist, counter, c_hist >>

\* The caller takes the result; the service can be called again.
service_finish ==
  /\ service.pc = "done"
  /\ service' = IdleService
  /\ UNCHANGED << tvars, rvars, cvars, programs, p_called, p_last, acct, a_hist, counter, c_hist >>

InitNet ==
  /\ InitTypesVars
  /\ endpoint \in Endpoints
  /\ InitRpc
  /\ InitAppVars
  /\ InitClientsVars

NextNet ==
  \/ health_check
  \/ \E w \in Wires : health_check_return(w)
  \/ get_network_status
  \/ \E w \in Wires : get_network_status_height(w)
  \/ \E w \in Wires : get_network_status_blockhash(w)
  \/ service_finish

SpecNet == InitNet /\ [][NextNet]_vars

(***************************************************************************)
(* Programs and the ProgramService: deployed_programs is a HashMap from    *)
(* program id to Program, a Program holds a HashMap of its accounts.       *)
(***************************************************************************)
HashMap_new == << >>

HashMap_insert(self, k, v) ==
  [x \in DOMAIN self \cup {k} |-> IF x = k THEN v ELSE self[x]]

HashMap_get(self, k) == IF k \in DOMAIN self THEN Some(self[k]) ELSE None

ProgramStatus == {"Deploying", "Deployed", "Failed", "Upgrading", "Closed"}

\* SystemTime::now() in seconds since the epoch
UnixNow == 1700000000

Program_new(program_id, name, version, description, data, authority) ==
  [data |-> data,
   status |-> "Deploying",
   name |-> name,
   program_id |-> program_id,
   version |-> version,
   description |-> description,
   authority |-> authority,
   accounts |-> HashMap_new,
   deployed_at |-> UnixNow]

Program_add_account(self, account) ==
  [self EXCEPT !.accounts = HashMap_insert(@, account.pubkey, account)]

Program_get_account(self, pubkey) == HashMap_get(self.accounts, pubkey)

\* Mutant: the status is left as it was.
Program_mark_deployed_Not(self) == self

Program_mark_deployed(self) == [self EXCEPT !.status = "Deployed"]

ProgramAccount_new(pubkey, owner, data, lamports, executable, metadata) ==
  [pubkey |-> pubkey,
   lamports |-> lamports,
   data |-> data,
   owner |-> owner,
   executable |-> executable,
   metadata |-> metadata,
   size |-> Len(data),
   created_at |-> UnixNow]

ProgramDeployment_new(program, config) ==
  [config |-> config,
   program |-> program,
   required_signatures |-> << >>,
   fee |-> 1000000]

CreateAccountRequest_new(account, program_id, payer, params) ==
  [params |-> params,
   program_id |-> program_id,
   account |-> account,
   payer |-> payer]

ProgramService_get_program(program_id) == HashMap_get(programs, program_id)

ProgramService_get_program_account(program_id, account_pubkey) ==
  IF ProgramService_get_program(program_id).some
    THEN Program_get_account(ProgramService_get_program(program_id).v, account_pubkey)
    ELSE None

\* ProgramService::deploy_program
deploy_program(deployment) ==
  /\ \E program_id \in {deployment.program.program_id} :
       /\ programs' = HashMap_insert(programs, program_id,
                                     Program_mark_deployed(deployment.program))
       /\ p_called' = p_called \cup {program_id}
       /\ p_last' = [arg |-> deployment,
                     fn |-> "deploy_program",
                     ret |-> Ok(program_id)]
  /\ UNCHANGED << tvars, rvars, cvars, service, acct, a_hist, counter, c_hist >>

\* Mutant: an account for a program that is not held makes the program.
create_account_MakesProgram(req) ==
  /\ programs' =
       IF ProgramService_get_program(req.program_id).some
         THEN [programs EXCEPT ![req.program_id] =
                 Program_add_account(@, req.account)]
         ELSE HashMap_insert(programs, req.program_id,
                Program_add_account(
                  Program_new(req.program_id, "", "", "", << >>, None),
                  req.account))
  /\ p_last' = [arg |-> req,
                fn |-> "create_account",
                ret |-> Ok(req.account.pubkey)]
  /\ UNCHANGED << tvars, rvars, cvars, service, p_called, acct, a_hist, counter, c_hist >>

\* ProgramService::create_account
create_account(req) ==
  /\ programs' =
       IF ProgramService_get_program(req.program_id).some
         THEN [programs EXCEPT ![req.program_id] =
                 Program_add_account(@, req.account)]
         ELSE programs
  /\ p_last' = [arg |-> req,
                fn |-> "create_account",
                ret |-> Ok(req.account.pubkey)]
  /\ UNCHANGED << tvars, rvars, cvars, service, p_called, acct, a_hist, counter, c_hist >>

\* The program ids, Pubkey::new([i; 32]), and the programs deployed: as
\* Program::new makes them, with an account added before, or with a status
\* the caller set.
ProgramIds == {Pubkey_new(Repeat(i, PUBKEY_BYTES)) : i \in 1..MaxPrograms}

DataMetadata ==
  [name |-> "Test Account",
   description |-> "A test account",
   account_type |-> "data",
   mutable |-> TRUE,
   seeds |-> << >>]

ProgramAccounts ==
  {ProgramAccount_new(KeyPool[i], owner, << 5, 6, 7, 8 >>, lamports, FALSE,
                      DataMetadata) :
     i \in 1..Len(KeyPool), owner \in {SYSTEM_PROGRAM_ID}, lamports \in {1000, 2000}}

NewProgram(id) ==
  Program_new(id, "Test Program", "1.0.0", "A test program", << 1, 2, 3, 4 >>,
              Some(SYSTEM_PROGRAM_ID))

DeploymentConfigs ==
  {[commitment |-> "confirmed",
    skip_preflight |-> FALSE,
    max_compute_units |-> None,
    priority_fee |-> None]}

Deployments ==
  {ProgramDeployment_new(program, config) :
     program \in UNION {{NewProgram(id),
                         [NewProgram(id) EXCEPT !.status = "Closed"],
                         Program_add_account(NewProgram(id),
                           ProgramAccount_new(SYSTEM_PROGRAM_ID, id, << >>, 5,
                                              FALSE, DataMetadata))} :
                        id \in ProgramIds},
     config \in DeploymentConfigs}

CreateAccountRequests ==
  {CreateAccountRequest_new(account, program_id, SYSTEM_PROGRAM_ID,
                            [lamports |-> 1000,
                             executable |-> FALSE,
                             seeds |-> None,
                             space |-> 4]) :
     account \in ProgramAccounts, program_id \in ProgramIds}

InitPrograms ==
  /\ InitTypesVars
  /\ endpoint = "http://localhost:8899"
  /\ InitRpc
  /\ InitAppVars
  /\ InitClientsVars

NextPrograms ==
  \/ \E deployment \in Deployments : deploy_program(deployment)
  \/ \E req \in CreateAccountRequests : create_account(req)

SpecPrograms == InitPrograms /\ [][NextPrograms]_vars

(***************************************************************************)
(* u64 arithmetic.  A u64 is written as its 16-bit limbs, the lowest       *)
(* first, so that sums past 2^64 - 1 are computed and not assumed away.    *)
(***************************************************************************)
U64_BITS == 64

LimbBase == 2^16

NLimbs == U64_BITS \div 16

\* The u64 of a number below 2^16, and u64::MAX.
U64(n) == [i \in 1..NLimbs |-> IF i = 1 THEN n ELSE 0]

U64_MAX == [i \in 1..NLimbs |-> LimbBase - 1]

\* The carry out of limb i of a + b, and the borrow out of limb i of a - b.
RECURSIVE AddCarry(_, _, _)
AddCarry(a, b, i) ==
  IF i = 0 THEN 0 ELSE (a[i] + b[i] + AddCarry(a, b, i - 1)) \div LimbBase

RECURSIVE SubBorrow(_, _, _)
SubBorrow(a, b, i) ==
  IF i = 0 THEN 0
  ELSE IF a[i] - b[i] - SubBorrow(a, b, i - 1) < 0 THEN 1 ELSE 0

\* a + b modulo 2^64, with whether the sum passed u64::MAX
u64_overflowing_add(a, b) ==
  [v |-> [i \in 1..NLimbs |-> (a[i] + b[i] + AddCarry(a, b, i - 1)) % LimbBase],
   overflow |-> AddCarry(a, b, NLimbs) = 1]

\* a - b modulo 2^64, with whether b is above a
u64_overflowing_sub(a, b) ==
  [v |-> [i \in 1..NLimbs |->
            (a[i] - b[i] - SubBorrow(a, b, i - 1) + LimbBase) % LimbBase],
   overflow |-> SubBorrow(a, b, NLimbs) = 1]

u64_ge(a, b) == SubBorrow(a, b, NLimbs) = 0

\* a += b and a -= b: with overflow checks the operation panics when the
\* result is out of range, without them it wraps.
ArithmeticPanic == [panic |-> "arithmetic overflow"]

AddAssign(a, b, checks) ==
  IF u64_overflowing_add(a, b).overflow /\ checks THEN ArithmeticPanic
  ELSE Ok(u64_overflowing_add(a, b).v)

SubAssign(a, b, checks) ==
  IF u64_overflowing_sub(a, b).overflow /\ checks THEN ArithmeticPanic
  ELSE Ok(u64_overflowing_sub(a, b).v)

(***************************************************************************)
(* ProgramAccount: add_lamports and subtract_lamports.                     *)
(***************************************************************************)
\* The sum of the calls as a number: wraps * 2^64 + low.
SumAdd(sum, amount) ==
  [wraps |-> sum.wraps + (IF u64_overflowing_add(sum.low, amount).overflow THEN 1 ELSE 0),
   low |-> u64_overflowing_add(sum.low, amount).v]

SumSub(sum, amount) ==
  [wraps |-> sum.wraps - (IF u64_overflowing_sub(sum.low, amount).overflow THEN 1 ELSE 0),
   low |-> u64_overflowing_sub(sum.low, amount).v]

\* ProgramAccount::new(pubkey, owner, data, lamports, false, metadata)
new_account(lamports) ==
  /\ acct = << >>
  /\ acct' = ProgramAccount_new(PubkeyOnes, SYSTEM_PROGRAM_ID, << 5, 6, 7, 8 >>,
                                   lamports, FALSE, DataMetadata)
  /\ a_hist' = [ops |-> 0,
                last |-> [fn |-> "new"],
                sum |-> [wraps |-> 0, low |-> lamports]]
  /\ UNCHANGED << tvars, rvars, cvars, service, programs, p_called, p_last, counter, c_hist >>

\* ProgramAccount::add_lamports: self.lamports += amount
add_lamports(amount, checks) ==
  /\ acct # << >>
  /\ a_hist.ops < MaxOps
  /\ "panic" \notin DOMAIN a_hist.last
  /\ \E r \in {AddAssign(acct.lamports, amount, checks)} :
       IF r = ArithmeticPanic
         THEN /\ acct' = acct
              /\ a_hist' = [ops |-> a_hist.ops + 1,
                            last |-> ArithmeticPanic,
                            sum |-> a_hist.sum]
         ELSE /\ acct' = [acct EXCEPT !.lamports = r.v]
              /\ a_hist' = [ops |-> a_hist.ops + 1,
                            last |-> [fn |-> "add_lamports", amount |-> amount,
                                      before |-> acct.lamports],
                            sum |-> SumAdd(a_hist.sum, amount)]
  /\ UNCHANGED << tvars, rvars, cvars, service, programs, p_called, p_last, counter, c_hist >>

\* ProgramAccount::subtract_lamports
subtract_lamports(amount) ==
  /\ acct # << >>
  /\ a_hist.ops < MaxOps
  /\ "panic" \notin DOMAIN a_hist.last
  /\ IF u64_ge(acct.lamports, amount)
       THEN /\ acct' = [acct EXCEPT
                             !.lamports = SubAssign(@, amount, TRUE).v]
            /\ a_hist' = [ops |-> a_hist.ops + 1,
                          last |-> [fn |-> "subtract_lamports",
                                    ret |-> Ok(<< >>),
                                    amount |-> amount,
                                    before |-> acct.lamports],
                          sum |-> SumSub(a_hist.sum, amount)]
       ELSE /\ acct' = acct
            /\ a_hist' = [ops |-> a_hist.ops + 1,
                          last |-> [fn |-> "subtract_lamports",
                                    ret |-> Err("Insufficient lamports"),
                                    amount |-> amount,
                                    before |-> acct.lamports],
                          sum |-> a_hist.sum]
  /\ UNCHANGED << tvars, rvars, cvars, service, programs, p_called, p_last, counter, c_hist >>

\* The balances an account is made with and the amounts of the calls.
Lamports == {U64(0), U64(1000), U64_MAX}

Amounts == {U64(1), U64(1000), U64_MAX}

InitLamports ==
  /\ InitTypesVars
  /\ endpoint = "http://localhost:8899"
  /\ InitRpc
  /\ InitAppVars
  /\ InitClientsVars

NextLamports ==
  \/ \E lamports \in Lamports : new_account(lamports)
  \/ \E amount \in Amounts, checks \in BOOLEAN : add_lamports(amount, checks)
  \/ \E amount \in Amounts : subtract_lamports(amount)

SpecLamports == InitLamports /\ [][NextLamports]_vars

(***************************************************************************)
(* The counter program (Anchor).  An instruction is run on the account at  *)
(* the counter address: the accounts are validated as the Accounts struct  *)
(* of the instruction says, then the handler runs; an instruction that     *)
(* fails leaves the account as it was.                                     *)
(***************************************************************************)
AnchorError(name) == [anchor |-> name]

ErrorCode(name) == [code |-> name]

\* The system program's refusal to create an account that exists.
SystemError(name) == [system |-> name]

\* The address the seeds [b"counter", authority] and a bump derive; only the
\* bump find_program_address returns derives the counter address.
CanonicalBump(authority) == 255

CounterOwner == PubkeyOnes

CounterAddress == [seeds |-> << "counter", CounterOwner >>]

create_program_address(authority, bump) ==
  IF bump = CanonicalBump(authority)
    THEN Ok([seeds |-> << "counter", authority >>])
    ELSE Err(SystemError("InvalidSeeds"))

CounterAccount(authority, count, created_at, last_updated, bump) ==
  [authority |-> authority,
   created_at |-> created_at,
   bump |-> bump,
   count |-> count,
   last_updated |-> last_updated]

\* Clock::get()?.unix_timestamp: a second passes with every instruction.
Clock_unix_timestamp == UnixNow + c_hist.ops

\* #[derive(Accounts)] of Initialize: init, seeds = [b"counter", authority],
\* bump
Initialize_try_accounts(authority) ==
  IF create_program_address(authority, CanonicalBump(authority)).v # CounterAddress
    THEN Err(AnchorError("ConstraintSeeds"))
  ELSE IF counter # << >> THEN Err(SystemError("AccountAlreadyInUse"))
  ELSE Ok(<< >>)

\* Mutant: the has_one constraint is left out.
Update_try_accounts_NoHasOne(authority, is_signer) ==
  IF counter = << >> THEN Err(AnchorError("AccountNotInitialized"))
  ELSE IF ~is_signer THEN Err(AnchorError("AccountNotSigner"))
  ELSE IF create_program_address(counter.authority, counter.bump)
            # Ok(CounterAddress)
    THEN Err(AnchorError("ConstraintSeeds"))
  ELSE Ok(<< >>)

\* #[derive(Accounts)] of Increment, Decrement, Reset and Set:
\* counter: Account<CounterAccount> with mut, seeds = [b"counter",
\* counter.authority], bump = counter.bump, has_one = authority;
\* authority: Signer
Update_try_accounts(authority, is_signer) ==
  IF counter = << >> THEN Err(AnchorError("AccountNotInitialized"))
  ELSE IF ~is_signer THEN Err(AnchorError("AccountNotSigner"))
  ELSE IF create_program_address(counter.authority, counter.bump)
            # Ok(CounterAddress)
    THEN Err(AnchorError("ConstraintSeeds"))
  ELSE IF counter.authority # authority THEN Err(AnchorError("ConstraintHasOne"))
  ELSE Ok(<< >>)

\* require!(counter.authority == ctx.accounts.authority.key(), Unauthorized)
require_authority(authority) ==
  IF counter.authority = authority THEN Ok(<< >>)
  ELSE Err(ErrorCode("Unauthorized"))

\* The instruction ix was run and returned ret, the account becoming after.
Ran(ix, after, ret) ==
  /\ c_hist.ops < MaxOps
  /\ counter' = IF "ok" \in DOMAIN ret /\ ret.ok THEN after ELSE counter
  /\ c_hist' = [ops |-> c_hist.ops + 1,
                last |-> [value |-> ix.value,
                          ix |-> ix.ix,
                          authority |-> ix.authority,
                          ret |-> ret,
                          before |-> counter,
                          is_signer |-> ix.is_signer]]
  /\ UNCHANGED << tvars, rvars, cvars, service, programs, p_called, p_last, acct,
                  a_hist >>

Instruction(ix, authority, is_signer, value) ==
  [value |-> value,
   ix |-> ix,
   authority |-> authority,
   is_signer |-> is_signer]

\* counter::initialize(ctx, authority, bump)
initialize(authority, bump) ==
  Ran(Instruction("initialize", authority, TRUE, bump),
      CounterAccount(authority, U64(0), Clock_unix_timestamp,
                     Clock_unix_timestamp, bump),
      Initialize_try_accounts(authority))

\* counter::increment
increment(authority, is_signer, checks) ==
  \E accounts \in {Update_try_accounts(authority, is_signer)} :
    IF ~accounts.ok
      THEN Ran(Instruction("increment", authority, is_signer, << >>), counter,
               accounts)
    ELSE IF ~require_authority(authority).ok
      THEN Ran(Instruction("increment", authority, is_signer, << >>), counter,
               require_authority(authority))
    ELSE \E count \in {AddAssign(counter.count, U64(1), checks)} :
           IF count = ArithmeticPanic
             THEN Ran(Instruction("increment", authority, is_signer, << >>),
                      counter, ArithmeticPanic)
             ELSE Ran(Instruction("increment", authority, is_signer, << >>),
                      [counter EXCEPT !.count = count.v,
                                      !.last_updated = Clock_unix_timestamp],
                      Ok(<< >>))

\* counter::decrement
decrement(authority, is_signer) ==
  \E accounts \in {Update_try_accounts(authority, is_signer)} :
    IF ~accounts.ok
      THEN Ran(Instruction("decrement", authority, is_signer, << >>), counter,
               accounts)
    ELSE IF ~require_authority(authority).ok
      THEN Ran(Instruction("decrement", authority, is_signer, << >>), counter,
               require_authority(authority))
    ELSE IF ~(counter.count # U64(0))
      THEN Ran(Instruction("decrement", authority, is_signer, << >>), counter,
               Err(ErrorCode("Underflow")))
    ELSE Ran(Instruction("decrement", authority, is_signer, << >>),
             [counter EXCEPT !.count = SubAssign(@, U64(1), TRUE).v,
                             !.last_updated = Clock_unix_timestamp],
             Ok(<< >>))

\* counter::reset
reset(authority, is_signer) ==
  \E accounts \in {Update_try_accounts(authority, is_signer)} :
    IF ~accounts.ok
      THEN Ran(Instruction("reset", authority, is_signer, << >>), counter, accounts)
    ELSE IF ~require_authority(authority).ok
      THEN Ran(Instruction("reset", authority, is_signer, << >>), counter,
               require_authority(authority))
    ELSE Ran(Instruction("reset", authority, is_signer, << >>),
             [counter EXCEPT !.count = U64(0),
                             !.last_updated = Clock_unix_timestamp],
             Ok(<< >>))

\* counter::set(ctx, value)
set(authority, is_signer, value) ==
  \E accounts \in {Update_try_accounts(authority, is_signer)} :
    IF ~accounts.ok
      THEN Ran(Instruction("set", authority, is_signer, value), counter, accounts)
    ELSE IF ~require_authority(authority).ok
      THEN Ran(Instruction("set", authority, is_signer, value), counter,
               require_authority(authority))
    ELSE Ran(Instruction("set", authority, is_signer, value),
             [counter EXCEPT !.count = value,
                             !.last_updated = Clock_unix_timestamp],
             Ok(<< >>))

\* The keys that sign, the bumps initialize is given and the values set.
Authorities == {SYSTEM_PROGRAM_ID, CounterOwner}

Bumps == {255, 254}

SetValues == {U64(0), U64(5), U64_MAX}

InitCounter ==
  /\ InitTypesVars
  /\ endpoint = "http://localhost:8899"
  /\ InitRpc
  /\ InitAppVars
  /\ InitClientsVars

NextCounter ==
  \/ \E authority \in Authorities, bump \in Bumps : initialize(authority, bump)
  \/ \E authority \in Authorities, is_signer \in BOOLEAN, checks \in BOOLEAN :
       increment(authority, is_signer, checks)
  \/ \E authority \in Authorities, is_signer \in BOOLEAN :
       decrement(authority, is_signer)
  \/ \E authority \in Authorities, is_signer \in BOOLEAN : reset(authority, is_signer)
  \/ \E authority \in Authorities, is_signer \in BOOLEAN, value \in SetValues :
       set(authority, is_signer, value)

SpecCounter == InitCounter /\ [][NextCounter]_vars

(***************************************************************************)
(* Identifier types: properties.                                           *)
(***************************************************************************)
AlphabetSet == {ALPHABET[i] : i \in 1..Len(ALPHABET)}

ValidBase58(s) == \A i \in 1..Len(s) : s[i] \in AlphabetSet

\* C1: from_base58(new(b).to_base58()) = Ok(new(b)) for Pubkey, Hash and
\* Signature, arrays with leading zero bytes included.
C1_RoundTrip ==
  t_op = "roundtrip" =>
    /\ Len(t_bytes) = KindBytes(t_kind)
    /\ t_res = Ok(KindNew(t_kind, t_bytes))

\* A Signature whose first two bytes are zero made the round trip.
C1_Witness ==
  /\ t_op = "roundtrip"
  /\ t_kind = "Signature"
  /\ t_bytes[1] = 0 /\ t_bytes[2] = 0 /\ t_bytes[3] # 0
  /\ t_res.ok

\* The length the text decodes to: that of the array it encodes when no
\* character was replaced, the decoder's otherwise.
DecodedLen(s) == IF t_where = "none" THEN Len(t_bytes) ELSE Len(bs58_decode(s).v)

\* C2: from_base58 succeeds exactly when the text is valid base58 and decodes
\* to the fixed length of the type; valid base58 of any other decoded length,
\* the empty text included, gives InvalidLength.
C2_LengthRule ==
  t_op \in {"from_base58", "roundtrip"} =>
    /\ t_res.ok <=> (ValidBase58(t_str) /\ DecodedLen(t_str) = KindBytes(t_kind))
    /\ t_res.ok => Len(t_res.v) = KindBytes(t_kind)
    /\ (ValidBase58(t_str) /\ DecodedLen(t_str) # KindBytes(t_kind))
         => t_res = Err("InvalidLength")

\* Hash::from_base58("") gave InvalidLength.
C2_Witness ==
  /\ t_op = "from_base58"
  /\ t_kind = "Hash"
  /\ t_str = << >>
  /\ t_res = Err("InvalidLength")

\* C3: a text with a character outside the base58 alphabet always gives
\* InvalidBase58, whatever its length.
C3_InvalidAlphabet ==
  (t_op = "from_base58" /\ ~ValidBase58(t_str)) => t_res = Err("InvalidBase58")

\* Pubkey::from_base58("invalid") gave InvalidBase58.
C3_Witness ==
  /\ t_op = "from_base58"
  /\ t_kind = "Pubkey"
  /\ t_str = InvalidText
  /\ t_res = Err("InvalidBase58")

\* C15: Pubkey, Hash and Signature serialize to the JSON string of their
\* base58 text, deserializing that string gives the value back, and
\* deserializing succeeds for nothing but a JSON string that is valid base58 of
\* the type's length.
C15_SerdeBase58 ==
  /\ t_op = "serde" =>
       /\ t_json = [t |-> "str", str |-> bs58_encode(t_bytes)]
       /\ t_res = Ok(KindNew(t_kind, t_bytes))
  /\ t_op = "deserialize" =>
       /\ t_res.ok <=> /\ t_json.t = "str"
                       /\ ValidBase58(t_json.str)
                       /\ DecodedLen(t_json.str) = KindBytes(t_kind)
       /\ t_res.ok => t_json = [t |-> "str", str |-> bs58_encode(t_res.v)]

\* A Signature with a leading zero byte came back from its JSON string.
C15_Witness ==
  /\ t_op = "serde"
  /\ t_kind = "Signature"
  /\ t_bytes[1] = 0
  /\ t_json.t = "str"
  /\ Len(t_json.str) > SIGNATURE_BYTES
  /\ t_res = Ok(t_bytes)

\* C16: the three types have equality and an ordering, both on the raw bytes:
\* x == y exactly when the arrays are equal, x < y exactly when the array of x
\* precedes that of y lexicographically.
C16_ByteOrder ==
  t_op = "compare" =>
    /\ t_res.eq = Some(t_bytes = t_other)
    /\ t_res.lt = Some(array_lt(t_bytes, t_other))

(***************************************************************************)
(* The client: properties.                                                 *)
(***************************************************************************)
\* The response type each operation asks post_json for.
RespType ==
  [get_account_info |-> "Option<AccountInfo>", get_balance |-> "BalanceInfo",
   get_latest_blockhash |-> "LatestBlockhashInfo", send_transaction |-> "String",
   get_block_height |-> "u64", get_multiple_accounts |-> "Vec<Option<AccountInfo>>"]

\* What post_json handed to the operation that has returned.
Transport == NativeHttpClient_post_json([ty |-> RespType[op], rpc |-> TRUE], wire)

Returned(o) == pc = "done" /\ op = o

\* The answer arrived with a 2xx status and a body that could be read.
Answered2xx == wire.sent /\ is_success(wire.status) /\ wire.readable

\* C4: for every input list and every successful node response,
\* get_multiple_accounts returns a list as long as the input whose element i is
\* None or an Account with pubkey input[i].
C4_SameLengthAsInput ==
  (Returned("get_multiple_accounts") /\ Transport.ok) =>
    /\ "ok" \in DOMAIN outcome
    /\ outcome.ok
    /\ Len(outcome.v) = Len(arg)
    /\ \A i \in 1..Len(arg) : outcome.v[i].some => outcome.v[i].v.pubkey = arg[i]

\* What a node answers for an account that does not exist.
NodeBalanceOfNone == Envelope(WithContext(JNum(0)))

NodeAccountOfNone == Envelope(WithContext(JNull))

\* C5: a nonexistent account is a normal outcome: get_balance returns Ok(0) and
\* get_account_info, the node reporting a null value, returns Ok(None).
C5_NonexistentAccount ==
  /\ (Returned("get_balance") /\ Answered2xx /\ wire.body = NodeBalanceOfNone)
       => outcome = Ok(0)
  /\ (Returned("get_account_info") /\ Answered2xx
        /\ wire.body \in {NodeAccountOfNone, Envelope(JNull)})
       => outcome = Ok(None)

\* C6: when the transport call of any of the six operations fails with an
\* HttpError e, the operation returns Err(RpcError::Http(e)), e unchanged
\* (HTTP 500 "server error" comes back as that HttpStatusError); never Ok.
C6_TransportFailure ==
  (pc = "done" /\ op \in RpcOps) =>
    /\ \A t \in {Transport} : ~t.ok => outcome = [ok |-> FALSE, e |-> [k |-> "Http", cause |-> t.e]]
    /\ (wire.sent /\ wire.status = 500 /\ wire.readable /\ wire.body = Text("server error"))
         => outcome = [ok |-> FALSE,
                       e |-> [k |-> "Http",
                              cause |-> [k |-> "HttpStatusError", status |-> 500,
                                         message |-> Text("server error")]]]
    /\ (~wire.sent \/ ~is_success(wire.status) \/ ~wire.readable)
         => ("ok" \in DOMAIN outcome /\ ~outcome.ok /\ outcome.e.k = "Http")

C6_Witness ==
  /\ Returned("get_multiple_accounts")
  /\ Len(arg) = MaxKeys
  /\ wire.sent /\ wire.status = 500 /\ wire.body = Text("server error")
  /\ outcome = Err(RpcError_Http(HttpStatusError(500, Text("server error"))))

\* The HttpError a failed call came back with: post_json's is wrapped by the
\* operation, get's is returned as it is.
ReturnedHttpError == IF op \in RpcOps THEN outcome.e.cause ELSE outcome.e

StatusErrorWith(unreadable) ==
  (pc = "done" /\ wire.sent /\ ~is_success(wire.status)) =>
    /\ "ok" \in DOMAIN outcome
    /\ ~outcome.ok
    /\ ReturnedHttpError =
         [k |-> "HttpStatusError", status |-> wire.status,
          message |-> IF wire.readable THEN wire.body ELSE Text(unreadable)]

\* C7 (as the code has it): post_json and get turn every non-2xx response into
\* HttpStatusError{status, message}, status the response's status and message
\* its raw body, or the text "Unknown error" when the body cannot be read.
C7_StatusError == StatusErrorWith("Unknown error")

\* C7 as claimed: the message is the empty string when the body cannot be read.
C7_EmptyWhenUnreadable == StatusErrorWith("")

C7_Witness ==
  /\ pc = "done"
  /\ op = "http_get"
  /\ wire.sent /\ wire.status = 404 /\ ~wire.readable
  /\ outcome = Err(HttpStatusError(404, Text("Unknown error")))

\* C8: for each of the six operations a 2xx response whose JSON object has no
\* result key makes the call fail with RpcError::Http(DeserializationError).
C8_NoResultKey ==
  (pc = "done" /\ op \in RpcOps /\ Answered2xx
     /\ wire.body.t = "obj" /\ "result" \notin DOMAIN wire.body.obj) =>
    /\ "ok" \in DOMAIN outcome
    /\ ~outcome.ok
    /\ outcome.e.k = "Http"
    /\ outcome.e.cause.k = "DeserializationError"

\* The answer holds a result that is a string.
HasResultString ==
  /\ Answered2xx
  /\ wire.body.t = "obj"
  /\ "result" \in DOMAIN wire.body.obj
  /\ wire.body.obj.result.t = "str"

ResultString == wire.body.obj.result.str

\* C9: send_transaction returns Ok(Signature) exactly when the result string
\* is valid base58 decoding to 64 bytes, and that signature encodes back to the
\* string; any other result string fails with RpcError::InvalidSignature.
C9_SignatureResult ==
  (Returned("send_transaction") /\ HasResultString) =>
    /\ outcome.ok <=> (ValidBase58(ResultString)
                         /\ Len(bs58_decode(ResultString).v) = SIGNATURE_BYTES)
    /\ outcome.ok => Signature_to_base58(outcome.v) = ResultString
    /\ ~outcome.ok => outcome.e.k = "InvalidSignature"

C9_Witness ==
  /\ Returned("send_transaction")
  /\ HasResultString
  /\ ResultString = SignatureOnesText
  /\ outcome = Ok(ByteArray(SIGNATURE_BYTES, 0, 1, 1))

\* Pubkey::new([1; 32]) in base58.
OnesBase58 ==
  << "4", "v", "J", "9", "J", "U", "1", "b", "J", "J", "E", "9", "6", "F", "W",
     "S", "J", "K", "v", "H", "s", "m", "m", "F", "A", "D", "C", "g", "4", "g",
     "p", "Z", "Q", "f", "f", "4", "P", "3", "b", "k", "L", "K", "i" >>

KeyText(k) == IF k = SYSTEM_PROGRAM_ID THEN SystemProgramText ELSE OnesBase58

\* The values the operation passes to .param, in call order.
ExpectedParams ==
  CASE op = "get_account_info" -> << JStr(KeyText(arg)), EncodingBase64 >>
    [] op = "get_balance" -> << JStr(KeyText(arg)) >>
    [] op = "get_latest_blockhash" -> << >>
    [] op = "send_transaction" -> << JStr(arg), EncodingBase64 >>
    [] op = "get_block_height" -> << >>
    [] op = "get_multiple_accounts" ->
         << JArr([i \in 1..Len(arg) |-> JStr(KeyText(arg[i]))]), EncodingBase64 >>

\* C10: every request of an operation is an envelope with jsonrpc "2.0", id 1
\* whatever was sent before, the operation's method name and the values passed
\* to .param in call order (none: an empty array).
C10_Envelope ==
  (op \in RpcOps) =>
    /\ request.verb = "POST"
    /\ request.url = endpoint
    /\ request.json.jsonrpc = "2.0"
    /\ request.json.id = 1
    /\ request.json.method = Methods[op]
    /\ request.json.params = ExpectedParams

C10_Witness ==
  /\ pc = "awaiting"
  /\ posts = MaxPosts
  /\ op = "get_multiple_accounts"
  /\ Len(arg) = MaxKeys
  /\ request.json.id = 1
  /\ Len(request.json.params) = 2
  /\ Len(request.json.params[1].arr) = MaxKeys

\* C11: each call of an RPC operation posts exactly one request to the client's
\* endpoint; the step in which the transport answers, with a response or a
\* failure, ends the call, and no request is sent again for it.
C11_OnePostPerCall ==
  [][/\ (pc = "idle" /\ op' \in RpcOps /\ pc' # pc) =>
          /\ pc' = "awaiting"
          /\ posts' = posts + 1
          /\ request'.verb = "POST"
          /\ request'.url = endpoint
     /\ pc = "awaiting" => (pc' = "done" /\ posts' = posts /\ request' = request)
     /\ pc = "done" => (posts' = posts /\ request' = request)]_vars

\* A first call failed in the transport and a second one was made: two
\* requests in all.
C11_Witness ==
  /\ pc = "done"
  /\ op \in RpcOps
  /\ posts = 2
  /\ ~wire.sent
  /\ outcome = Err(RpcError_Http(RequestError("error sending request")))

\* What the transport call of the finished call returned: post_json's result
\* inside an operation, the call's own result for post_json and get.
HttpOutcome == IF op \in RpcOps THEN Transport ELSE outcome

\* The response type and the body of the transport call.
HttpResp == IF op \in RpcOps THEN [ty |-> RespType[op], rpc |-> TRUE]
            ELSE [ty |-> "u64", rpc |-> FALSE]

HttpBody == IF op \in RpcOps THEN request.json ELSE arg

\* C17: for the same request and the same behaviour of the server the native
\* and the wasm client return the same outcome, a body that cannot be encoded
\* included.
C17_SameOutcome ==
  pc = "done" =>
    HttpOutcome = IF op = "http_get" THEN WasmHttpClient_get(HttpResp, wire)
                  ELSE WasmHttpClient_post_json(HttpResp, HttpBody, wire)

\* C18: each operation sends its method name; getAccountInfo and
\* getMultipleAccounts send the key, or all keys in input order in one array,
\* in base58 as first param and {"encoding": "base64"} as second.
C18_MethodsAndParams ==
  /\ op = "get_account_info" =>
       /\ request.json.method = "getAccountInfo"
       /\ request.json.params =
            << [t |-> "str", str |-> KeyText(arg)],
               [t |-> "obj", obj |-> [encoding |-> [t |-> "str", str |-> Chars_base64]]] >>
  /\ op = "get_balance" => request.json.method = "getBalance"
  /\ op = "get_latest_blockhash" => request.json.method = "getLatestBlockhash"
  /\ op = "send_transaction" => request.json.method = "sendTransaction"
  /\ op = "get_block_height" => request.json.method = "getBlockHeight"
  /\ op = "get_multiple_accounts" =>
       /\ request.json.method = "getMultipleAccounts"
       /\ Len(request.json.params) = 2
       /\ request.json.params[1].t = "arr"
       /\ Len(request.json.params[1].arr) = Len(arg)
       /\ \A i \in 1..Len(arg) :
            request.json.params[1].arr[i] = [t |-> "str", str |-> KeyText(arg[i])]
       /\ request.json.params[2] =
            [t |-> "obj", obj |-> [encoding |-> [t |-> "str", str |-> Chars_base64]]]

\* Two different keys are on their way in one request, in input order.
C18_Witness ==
  /\ pc = "awaiting"
  /\ op = "get_multiple_accounts"
  /\ arg = << PubkeyOnes, SYSTEM_PROGRAM_ID >>
  /\ posts = 1
  /\ request.json.params[1].arr[1].str = OnesBase58
  /\ request.json.params[1].arr[2].str = SystemProgramText

\* C19: post_json and get decide their one outcome in a fixed order: a send
\* failure gives RequestError; otherwise a non-2xx status gives
\* HttpStatusError whatever the body holds; otherwise an unreadable body gives
\* ResponseError; otherwise a body that does not decode into the expected type
\* gives DeserializationError; otherwise the decoded value.
C19_OutcomeOrder ==
  pc = "done" =>
    \A r \in {HttpOutcome} :
      IF ~wire.sent THEN ~r.ok /\ r.e.k = "RequestError"
      ELSE IF ~(200 <= wire.status /\ wire.status <= 299)
        THEN ~r.ok /\ r.e.k = "HttpStatusError" /\ r.e.status = wire.status
      ELSE IF ~wire.readable THEN ~r.ok /\ r.e.k = "ResponseError"
      ELSE \A d \in {from_str(HttpResp, wire.body)} :
             IF ~d.ok THEN ~r.ok /\ r.e.k = "DeserializationError"
             ELSE r = [ok |-> TRUE, v |-> d.v]

\* get_block_height was answered 500 with a body that is a valid answer.
C19_Witness ==
  /\ Returned("get_block_height")
  /\ wire.sent /\ wire.status = 500 /\ wire.readable
  /\ wire.body = Envelope(JNum(5))
  /\ from_str(HttpResp, wire.body).ok
  /\ outcome = Err(RpcError_Http(HttpStatusError(500, Envelope(JNum(5)))))

(***************************************************************************)
(* Client handles: properties.                                             *)
(***************************************************************************)
Started(i) == calls[i].pc # "idle"

Done(i) == calls[i].pc = "done"

\* What a call returns by its own operation and the answer to its own
\* request, for the answers of CallWires.
OwnOutcome(c) ==
  IF ~c.wire.sent
    THEN c.outcome = Err(RpcError_Http(RequestError("error sending request")))
  ELSE IF c.wire.status = 500
    THEN c.outcome = Err(RpcError_Http(HttpStatusError(500, c.wire.body)))
  ELSE IF c.op = "get_block_height" /\ c.wire.body = Envelope(JNum(5))
    THEN c.outcome = Ok(5)
  ELSE ~c.outcome.ok /\ c.outcome.e.cause.k = "DeserializationError"

\* C12: calls made concurrently on one handle or on its clones are
\* independent in every interleaving: each call has its own request, built of
\* its own operation and argument for the endpoint of its handle; what it
\* returns is decided by the answer to that request alone; and a step of one
\* call changes neither a handle nor another call.
C12_IndependentCalls ==
  /\ [](\A i \in 1..Len(calls) :
          /\ Started(i) =>
               /\ calls[i].request.verb = "POST"
               /\ calls[i].request.url = clients[calls[i].handle].given
               /\ calls[i].request.json.method =
                    (IF calls[i].op = "get_balance" THEN "getBalance"
                     ELSE "getBlockHeight")
          /\ Done(i) => OwnOutcome(calls[i])
          /\ \A j \in 1..Len(calls) :
               (Done(i) /\ Done(j) /\ calls[i].op = calls[j].op
                  /\ calls[i].wire = calls[j].wire)
                 => calls[i].outcome = calls[j].outcome)
  /\ [][/\ \A h \in 1..Len(clients) : clients'[h] = clients[h]
        /\ \A i \in 1..Len(calls) :
             /\ calls'[i] # calls[i] =>
                  /\ clients' = clients
                  /\ \A j \in 1..Len(calls) : j # i => calls'[j] = calls[j]
             /\ Started(i) => calls'[i].request = calls[i].request]_vars

\* Two calls on a handle and its clone, answered differently: the first
\* failed in the transport, the second returned a block height.
C12_Witness ==
  /\ Len(clients) = 2
  /\ clients[2] = clients[1]
  /\ Done(1) /\ Done(2)
  /\ calls[1].handle = 1 /\ calls[2].handle = 2
  /\ calls[1].op = calls[2].op
  /\ ~calls[1].wire.sent
  /\ calls[2].outcome = Ok(5)

\* C13: the client the builder makes has the endpoint the builder was given,
\* whatever commitment levels were set or not, and the client create_client
\* makes has the endpoint of the network.
C13_BuilderEndpoint ==
  \A h \in 1..Len(clients) :
    /\ SolanaRpcClient_endpoint(clients[h].client) = clients[h].given
    /\ clients[h].by = "create_client" =>
         SolanaRpcClient_endpoint(clients[h].client) = Network_endpoint(network)

\* A client built for localhost after two commitment levels, and one made by
\* create_client for mainnet.
C13_Witness ==
  /\ Len(clients) = 2
  /\ clients[1].by = "builder"
  /\ clients[1].levels = << "Processed", "Finalized" >>
  /\ clients[1].client.endpoint = "http://localhost:8899"
  /\ clients[2].by = "create_client"
  /\ clients[2].client.endpoint = "https://api.mainnet-beta.solana.com"

\* The URL of each network, written out.
NetworkUrl ==
  CASE network.k = "Mainnet" -> "https://api.mainnet-beta.solana.com"
    [] network.k = "Testnet" -> "https://api.testnet.solana.com"
    [] network.k = "Devnet" -> "https://api.devnet.solana.com"
    [] network.k = "Custom" -> network.url

\* C14: Network::endpoint returns the fixed URL of Mainnet, Testnet and
\* Devnet and the url of Custom(url) each time it is called,
\* surfpool_network().endpoint() is "http://127.0.0.1:8899", and no operation
\* on a client changes the Network value.
C14_NetworkEndpoint ==
  /\ [](/\ Network_endpoint(network) = NetworkUrl
        /\ Network_endpoint(surfpool_network) = "http://127.0.0.1:8899"
        /\ \A h \in 1..Len(clients) :
             clients[h].by = "create_client" => clients[h].given = NetworkUrl)
  /\ [][network' = network]_vars

\* The endpoint of the surfpool network was read for a first client and,
\* after a call on that client had returned, for a second one.
C14_Witness ==
  /\ network = Network_Custom("http://127.0.0.1:8899")
  /\ Len(clients) = 2
  /\ clients[1].by = "create_client" /\ clients[2].by = "create_client"
  /\ clients[2].given = "http://127.0.0.1:8899"
  /\ calls[1].pc = "done"
  /\ calls[1].handle = 1

\* The commitment level a handle's builder ended with.
Commitment(h) ==
  IF clients[h].levels = << >> THEN None
  ELSE Some(clients[h].levels[Len(clients[h].levels)])

C21_NeverAborts ==
  (Returned("get_multiple_accounts") /\ Transport.ok) =>
    /\ outcome # Panicked
    /\ "ok" \in DOMAIN outcome

\* The Account made of AccountBadData and of AccountA for the pubkey pk.
AccountOfBadData(pk) == Account(pk, 11, << >>, SYSTEM_PROGRAM_ID, FALSE, 3)

AccountOfA(pk) == Account(pk, 10, << 1, 2, 3 >>, SYSTEM_PROGRAM_ID, FALSE, 3)

\* The entries of the result list of the answer.
ResultEntries ==
  IF wire.body.t = "obj" /\ "result" \in DOMAIN wire.body.obj
       /\ wire.body.obj.result.t = "arr"
    THEN wire.body.obj.result.arr
    ELSE << >>

\* C22: in get_account_info and get_multiple_accounts an account entry whose
\* data text is not valid base64 does not fail the call: the Account returned
\* for it has empty data and the lamports, owner, executable and rent_epoch of
\* the response; an entry whose data text is valid base64 gives an Account
\* whose data is the decoded bytes.
C22_InvalidBase64Tolerated ==
  /\ (Returned("get_account_info") /\ Answered2xx) =>
       /\ wire.body = Envelope(AccountBadData) =>
            outcome = Ok(Some(AccountOfBadData(arg)))
       /\ wire.body = Envelope(AccountA) => outcome = Ok(Some(AccountOfA(arg)))
  /\ (Returned("get_multiple_accounts") /\ Answered2xx /\ Transport.ok) =>
       /\ (\E i \in 1..Len(ResultEntries) : ResultEntries[i] = AccountBadData)
            => ("ok" \in DOMAIN outcome /\ outcome.ok)
       /\ "ok" \in DOMAIN outcome =>
            /\ outcome.ok
            /\ Len(outcome.v) = Len(ResultEntries)
            /\ \A i \in 1..Len(ResultEntries) :
                 /\ ResultEntries[i] = AccountBadData =>
                      outcome.v[i] = Some(AccountOfBadData(arg[i]))
                 /\ ResultEntries[i] = AccountA =>
                      outcome.v[i] = Some(AccountOfA(arg[i]))

(***************************************************************************)
(* NetworkService: properties.                                             *)
(***************************************************************************)
ServiceReturned(f) == service.pc = "done" /\ service.fn = f

\* What get_block_height and get_latest_blockhash make of the answers the
\* service's requests got.
HeightCall == get_block_height_result(service.wires[1])

BlockhashCall == get_latest_blockhash_result(service.wires[2])

HeightFive == Answer(200, TRUE, Envelope(JNum(5)))

BlockhashOnes ==
  Answer(200, TRUE,
         Envelope(WithContext(JObj([blockhash |-> JStr(PubkeyOnesText),
                                    lastValidBlockHeight |-> JNum(100)]))))

\* C23: health_check never returns Err: it makes one get_block_height call and
\* returns Ok(true) exactly when that call succeeds and Ok(false) for every
\* failure of it, in the transport, by status or in decoding.
C23_HealthCheckNeverErr ==
  ServiceReturned("health_check") =>
    /\ Len(service.sent) = 1
    /\ service.sent[1].json.method = "getBlockHeight"
    /\ Len(service.wires) = 1
    /\ service.outcome.ok
    /\ service.outcome.v \in BOOLEAN
    /\ service.outcome.v = HeightCall.ok
    /\ service.wires[1] = HeightFive => service.outcome = Ok(TRUE)
    /\ service.wires[1] \in {SendFailure, Answer(500, TRUE, Text("server error")),
                             Answer(200, TRUE, ErrorObject),
                             Answer(200, TRUE, Envelope(JNum(-1)))}
         => service.outcome = Ok(FALSE)

\* health_check returned Ok(false) for a request that could not be sent.
C23_Witness ==
  /\ ServiceReturned("health_check")
  /\ service.wires = << SendFailure >>
  /\ service.outcome = Ok(FALSE)

\* C24: get_network_status posts getBlockHeight first and getLatestBlockhash
\* only after the first call returned Ok; when either call fails it returns
\* that call's error and no status; a status it returns has is_connected true,
\* the block height of the first answer and the blockhash of the second.
C24_StatusOrder ==
  (service.fn = "get_network_status") =>
    /\ Len(service.sent) \in {1, 2}
    /\ service.sent[1].json.method = "getBlockHeight"
    /\ Len(service.sent) = 2 =>
         /\ service.sent[2].json.method = "getLatestBlockhash"
         /\ Len(service.wires) >= 1
         /\ HeightCall.ok
    /\ service.pc = "height" => Len(service.sent) = 1 /\ Len(service.wires) = 0
    /\ service.pc = "done" =>
         IF ~HeightCall.ok
           THEN /\ service.outcome = Err(Box_from(HeightCall.e))
                /\ Len(service.sent) = 1
           ELSE /\ Len(service.sent) = 2
                /\ Len(service.wires) = 2
                /\ IF ~BlockhashCall.ok
                     THEN service.outcome = Err(Box_from(BlockhashCall.e))
                     ELSE /\ service.outcome.ok
                          /\ service.outcome.v.is_connected = TRUE
                          /\ service.outcome.v.block_height = HeightCall.v
                          /\ service.outcome.v.latest_blockhash = BlockhashCall.v
    /\ (service.pc = "done" /\ service.wires = << HeightFive, BlockhashOnes >>) =>
         service.outcome =
           Ok([is_connected |-> TRUE, block_height |-> 5,
               latest_blockhash |->
                 [blockhash |-> PubkeyOnes, last_valid_block_height |-> 100]])
    /\ (service.pc = "done" /\ service.wires = << HeightFive, SendFailure >>) =>
         service.outcome =
           Err(Box_from(RpcError_Http(RequestError("error sending request"))))

\* The block height was fetched and the blockhash request then failed by
\* status: the call returned that error.
C24_Witness ==
  /\ ServiceReturned("get_network_status")
  /\ service.wires = << HeightFive, Answer(500, TRUE, Text("server error")) >>
  /\ service.outcome =
       Err(Box_from(RpcError_Http(HttpStatusError(500, Text("server error")))))

(***************************************************************************)
(* ProgramService: properties.                                             *)
(***************************************************************************)
\* C25: after any sequence of deploy_program and create_account calls every
\* program the service holds has status Deployed and is stored under its own
\* program_id, and get_program(id) returns a program exactly when
\* deploy_program was called for id; a program made by Program::new has
\* status Deploying and no accounts.
C25_HeldProgramsDeployed ==
  /\ \A id \in DOMAIN programs :
       /\ programs[id].status = "Deployed"
       /\ programs[id].program_id = id
  /\ \A id \in ProgramIds : ProgramService_get_program(id).some <=> id \in p_called
  /\ \A id \in ProgramIds :
       /\ NewProgram(id).status = "Deploying"
       /\ DOMAIN NewProgram(id).accounts = {}
       /\ NewProgram(id).program_id = id

\* A program deployed with status Closed is held as Deployed, the other
\* program id was never deployed.
C25_Witness ==
  /\ p_last.fn = "deploy_program"
  /\ p_last.arg.program.status = "Closed"
  /\ ProgramService_get_program(p_last.arg.program.program_id).v.status = "Deployed"
  /\ p_called = {p_last.arg.program.program_id}
  /\ \E id \in ProgramIds : ~ProgramService_get_program(id).some

\* A step of create_account.
CreateAccountStep ==
  /\ p_last'.fn = "create_account"
  /\ p_last' # p_last \/ programs' # programs

\* C26: create_account returns Ok with the pubkey of the request's account;
\* when the request's program_id was deployed the account is then returned by
\* get_program_account(program_id, pubkey), in place of any account held under
\* that pubkey, and nothing else of the service changes; when the program_id
\* was never deployed the service's state is unchanged.
C26_CreateAccount ==
  /\ [](p_last.fn = "create_account" =>
          /\ p_last.ret = Ok(p_last.arg.account.pubkey)
          /\ p_last.arg.program_id \in p_called =>
               ProgramService_get_program_account(p_last.arg.program_id,
                                                  p_last.arg.account.pubkey)
                 = Some(p_last.arg.account))
  /\ [][CreateAccountStep =>
          /\ p_called' = p_called
          /\ IF p_last'.arg.program_id \in p_called
               THEN /\ DOMAIN programs' = DOMAIN programs
                    /\ \A id \in DOMAIN programs :
                         /\ [programs'[id] EXCEPT !.accounts = programs[id].accounts]
                              = programs[id]
                         /\ DOMAIN programs'[id].accounts =
                              DOMAIN programs[id].accounts \cup
                                (IF id = p_last'.arg.program_id
                                   THEN {p_last'.arg.account.pubkey} ELSE {})
                         /\ \A k \in DOMAIN programs[id].accounts :
                              (id # p_last'.arg.program_id
                                 \/ k # p_last'.arg.account.pubkey)
                                => programs'[id].accounts[k] = programs[id].accounts[k]
               ELSE programs' = programs]_vars

\* An account was created for a deployed program that holds another account
\* too, while the other program id is not deployed.
C26_Witness ==
  /\ p_last.fn = "create_account"
  /\ p_last.arg.program_id \in p_called
  /\ p_last.arg.account.lamports = 2000
  /\ ProgramService_get_program_account(p_last.arg.program_id,
                                        p_last.arg.account.pubkey).v.lamports = 2000
  /\ DOMAIN programs[p_last.arg.program_id].accounts = {SYSTEM_PROGRAM_ID, PubkeyOnes}
  /\ \E id \in ProgramIds : id \notin p_called

(***************************************************************************)
(* ProgramAccount: properties.                                             *)
(***************************************************************************)
\* What subtract_lamports has to do with the balance it found.
SubtractExact ==
  a_hist.last.fn = "subtract_lamports" =>
    IF u64_ge(a_hist.last.before, a_hist.last.amount)
      THEN /\ a_hist.last.ret = Ok(<< >>)
           /\ u64_overflowing_add(acct.lamports, a_hist.last.amount)
                = [v |-> a_hist.last.before, overflow |-> FALSE]
      ELSE /\ a_hist.last.ret = Err("Insufficient lamports")
           /\ acct.lamports = a_hist.last.before

\* C27: subtract_lamports(amount) succeeds exactly when lamports >= amount and
\* then lowers the balance by amount, otherwise it returns
\* Err("Insufficient lamports") and leaves the balance; after any sequence of
\* add_lamports and subtract_lamports the balance is the initial balance plus
\* all additions minus all successful subtractions, never wrapped around
\* 2^64.
C27_LamportsExact ==
  (acct # << >> /\ "fn" \in DOMAIN a_hist.last) =>
    /\ SubtractExact
    /\ a_hist.sum = [wraps |-> 0, low |-> acct.lamports]


(***************************************************************************)
(* The counter program: properties.                                        *)
(***************************************************************************)
\* The last instruction was ix, signed, on an initialized counter.
SignedUpdate(ix) ==
  /\ c_hist.last.ix = ix
  /\ c_hist.last.is_signer
  /\ c_hist.last.before # << >>

ByAuthority == c_hist.last.authority = c_hist.last.before.authority

\* C28: the count never goes below 0 and never wraps: decrement signed by the
\* authority fails with Underflow and leaves the account unchanged when count
\* is 0 and lowers count by exactly 1 when it is above 0, and every
\* instruction that changes the count leaves the exact value in 0..2^64-1.
C28_CountNeverWraps ==
  /\ SignedUpdate("decrement") /\ ByAuthority =>
        IF c_hist.last.before.count = U64(0)
          THEN /\ c_hist.last.ret = Err(ErrorCode("Underflow"))
               /\ counter = c_hist.last.before
          ELSE /\ c_hist.last.ret = Ok(<< >>)
               /\ ~u64_overflowing_sub(c_hist.last.before.count, U64(1)).overflow
               /\ counter.count
                    = u64_overflowing_sub(c_hist.last.before.count, U64(1)).v
  /\ SignedUpdate("increment") /\ c_hist.last.ret = Ok(<< >>) =>
        ~u64_overflowing_add(c_hist.last.before.count, U64(1)).overflow
  /\ SignedUpdate("decrement") /\ c_hist.last.ret = Ok(<< >>) =>
        ~u64_overflowing_sub(c_hist.last.before.count, U64(1)).overflow

\* The last instruction was an update signed by a key that is not the stored
\* authority.
ForeignSigner ==
  /\ c_hist.last.ix \in {"increment", "decrement", "reset", "set"}
  /\ c_hist.last.is_signer
  /\ c_hist.last.before # << >>
  /\ ~ByAuthority

====
